---- MODULE Spec2Model ----
(***************************************************************************)
(* Model of the offline-first synchronisation engine of BRAINAPP: the      *)
(* repositories (projects / tasks / tags) that mutate the local SQLite     *)
(* store and mark sync metadata, and SyncService (sync pass, upload and    *)
(* download phases, bulk export) that reconciles it with the remote        *)
(* Supabase store.                                                         *)
(*                                                                         *)
(* Values.  Every cell of a row is an integer so rows compare uniformly:   *)
(* Absent (-1) = the key is not part of the row object, Null (0) = SQL     *)
(* NULL / JS null, ids and text values are positive integers.              *)
(***************************************************************************)
EXTENDS Integers, Sequences, FiniteSets, TLC

----------------------------------------------------------------------------
(* Bounds of the model *)

MaxOps == 2
MaxCalls == 3
MaxPasses == 1
MaxExports == 2
MaxFaults == 2
MaxMergeId == 2
MaxListeners == 2
MaxEvents == 2
MaxRows == 4
MaxCallers == 2
MaxRuns == 6

Absent == 0 - 1
Null == 0
NewVals == {1}
EditVals == {2}
RemoteVals == {3}

----------------------------------------------------------------------------
(* Configuration and schema *)

\* SYNC_CONFIG lives in lib/supabase.js; the tracked tables and their
\* dependency order are the ones the specification fixes (section 6).
TABLES == <<"projects", "tasks", "tags", "task_tags">>

\* SYNC_CONFIG.BATCH_SIZE, scaled down so that a backlog larger than one
\* batch fits the model.
BATCH_SIZE == 2

TableNames == {"projects", "tasks", "tags", "task_tags"}

Columns == {"id", "name", "project_id", "title", "description",
            "task_id", "tag_id", "created_at"}

\* PRAGMA table_info(t): the columns of the local schema
getLocalTableColumns(t) ==
  CASE t = "projects"  -> {"id", "name"}
    [] t = "tasks"     -> {"id", "project_id", "title", "description"}
    [] t = "tags"      -> {"id", "name"}
    [] t = "task_tags" -> {"task_id", "tag_id"}

\* NOT NULL columns of the local schema (the id is filled by AUTOINCREMENT)
NotNullColumns(t) ==
  CASE t = "projects"  -> {"name"}
    [] t = "tasks"     -> {"project_id", "title"}
    [] t = "tags"      -> {"name"}
    [] t = "task_tags" -> {"task_id", "tag_id"}

EmptyRow == [c \in Columns |-> Absent]

Keys(r) == {c \in Columns : r[c] # Absent}

\* a row object built from a partial assignment of columns
MkRow(f) == [c \in Columns |-> IF c \in DOMAIN f THEN f[c] ELSE Absent]

ProjectRow(i, n) == MkRow([id |-> i, name |-> n])
TaskRow(i, p, t, d) == MkRow([id |-> i, project_id |-> p, title |-> t, description |-> d])

\* the rows of a table with a given id
ById(rows, i) == {r \in rows : r["id"] = i}

----------------------------------------------------------------------------
(* State *)

VARIABLES
  local,           \* local SQLite business tables: table name -> set of rows
  localSeq,        \* sqlite_sequence of the AUTOINCREMENT tables
  remote,          \* remote Supabase tables: table name -> set of rows
  remoteSeq,       \* SERIAL sequences of the remote tables
  origin,          \* history: <<table, local id, remote id>> of every remote row
                   \* that an upload created from a local record
  meta,            \* rows of sync_metadata
  clock,           \* CURRENT_TIMESTAMP as a logical clock
  syncLog,         \* rows of sync_log, oldest first
  syncInProgress,  \* SyncService.syncInProgress
  isOnline,        \* SyncService.isOnline
  lastSyncTime,    \* SyncService.lastSyncTime (0 = null, else the call that set it)
  tables,          \* the SYNC_CONFIG.TABLES array object
  nCalls,          \* number of sync() calls made so far
  call,            \* per sync() call: position and locals of the async function
  syncListeners,   \* SyncService.syncListeners: the subscribed callbacks in
                   \* insertion order, each with what it last received
  notifyThrew,     \* whether the last notifyListeners() call threw
  nOps,            \* number of repository mutations made so far
  nExports,        \* number of exportAllDataToSupabase() calls made so far
  ex,              \* position and locals of the running export
  retry,           \* the module-level handle db of the local store, and the
                   \* position and locals of the running withRetry() call
  db,              \* let db: the handle of the local store that concurrent
                   \* callers share, Null before the store is opened
  initPromise,     \* let initPromise: the _initDatabase() run that
                   \* initDatabase() callers wait for, or Null
  inits,           \* per _initDatabase() run: how far it has got
  ops,             \* per concurrent withRetry() call: position and locals
  nFaults          \* number of failures the environment has injected so far

vars == <<local, localSeq, remote, remoteSeq, origin, meta, clock, syncLog,
          syncInProgress, isOnline, lastSyncTime, tables,
          nCalls, call, syncListeners, notifyThrew, nOps, nExports, ex, retry,
          db, initPromise, inits, ops, nFaults>>

storeVars == <<local, localSeq, remote, remoteSeq, origin, meta, clock>>
busVars == <<syncListeners, notifyThrew>>
serviceVars == <<syncLog, syncInProgress, isOnline, lastSyncTime,
                 nCalls, call, busVars>>
exportVars == <<tables, nExports, ex>>
moduleVars == <<db, initPromise, inits, ops>>

Calls == 1..MaxCalls

\* the environment injects k more failures (store or remote operations that
\* fail), within the budget of the model
Faults(k) == nFaults + k <= MaxFaults /\ nFaults' = nFaults + k

F(ok) == IF ok THEN 0 ELSE 1

----------------------------------------------------------------------------
(* Change tracker: sync_metadata *)

\* variant of insertSyncMetadata that inserts without replacing the row of
\* the key
insertSyncMetadata_NoReplace(m, now, t, id, supabaseId) ==
  m \cup {[table_name |-> t, record_id |-> id, sync_status |-> "pending",
           supabase_id |-> supabaseId, last_modified |-> now]}

\* INSERT OR REPLACE INTO sync_metadata (...) VALUES (t, id, 'pending',
\* supabaseId, CURRENT_TIMESTAMP, ...): the row of the key (UNIQUE(table_name,
\* record_id)) is replaced as a whole.
insertSyncMetadata(m, now, t, id, supabaseId) ==
  {x \in m : ~(x.table_name = t /\ x.record_id = id)}
    \cup {[table_name |-> t, record_id |-> id, sync_status |-> "pending",
           supabase_id |-> supabaseId, last_modified |-> now]}

\* variant of updateSyncMetadata that writes the status only and never the
\* remote id
updateSyncMetadata_StatusOnly(m, t, id, status, sid) ==
  {IF x.table_name = t /\ x.record_id = id
     THEN [x EXCEPT !.sync_status = status]
     ELSE x : x \in m}

\* UPDATE sync_metadata SET <updates> WHERE table_name = t AND record_id = id.
\* sid = Absent: the updates object has no supabase_id key.
updateSyncMetadata(m, t, id, status, sid) ==
  {IF x.table_name = t /\ x.record_id = id
     THEN [x EXCEPT !.sync_status = status,
                    !.supabase_id = IF sid = Absent THEN @ ELSE sid]
     ELSE x : x \in m}

\* ORDER BY last_modified ASC of a set of metadata rows
RECURSIVE SortByLastModified(_)
SortByLastModified(S) ==
  IF S = {} THEN <<>>
  ELSE LET x == CHOOSE y \in S : \A z \in S : y.last_modified <= z.last_modified
       IN <<x>> \o SortByLastModified(S \ {x})

Take(s, n) == IF Len(s) <= n THEN s ELSE SubSeq(s, 1, n)

\* variant of getPendingChanges without the WHERE clause
getPendingChanges_Unfiltered(m) ==
  Take(SortByLastModified(m), BATCH_SIZE)

\* SELECT ... WHERE sync_status IN ('pending','error') ORDER BY last_modified
\* ASC LIMIT BATCH_SIZE
getPendingChanges(m) ==
  Take(SortByLastModified({x \in m : x.sync_status \in {"pending", "error"}}),
       BATCH_SIZE)

\* what a repository does to sync_metadata: syncService.insertSyncMetadata(t, id)
\* with the supabaseId parameter left at its default (null).  metaOk = FALSE:
\* the sync_metadata table is unavailable, the failure is swallowed.
MarkPending(t, id, metaOk) ==
  IF metaOk
    THEN /\ meta' = insertSyncMetadata(meta, clock + 1, t, id, Null)
         /\ clock' = clock + 1
    ELSE UNCHANGED <<meta, clock>>

----------------------------------------------------------------------------
(* Repositories *)

LocalIds(t) == {r["id"] : r \in local[t]}

\* variant of createProject in which a failed metadata write rolls the
\* insert back
createProject_RollsBack(name, metaOk) ==
  /\ nOps < MaxOps
  /\ LET projectId == localSeq["projects"] + 1 IN
       /\ local' = IF metaOk
                     THEN [local EXCEPT !["projects"] = @ \cup {ProjectRow(projectId, name)}]
                     ELSE local
       /\ localSeq' = [localSeq EXCEPT !["projects"] = projectId]
       /\ MarkPending("projects", projectId, metaOk)
  /\ nOps' = nOps + 1
  /\ Faults(F(metaOk))
  /\ UNCHANGED <<remote, remoteSeq, origin, serviceVars, exportVars, retry, moduleVars>>

createProject(name, metaOk) ==
  /\ nOps < MaxOps
  /\ LET projectId == localSeq["projects"] + 1 IN
       /\ local' = [local EXCEPT !["projects"] = @ \cup {ProjectRow(projectId, name)}]
       /\ localSeq' = [localSeq EXCEPT !["projects"] = projectId]
       /\ MarkPending("projects", projectId, metaOk)
  /\ nOps' = nOps + 1
  /\ Faults(F(metaOk))
  /\ UNCHANGED <<remote, remoteSeq, origin, serviceVars, exportVars, retry, moduleVars>>

updateProject(id, name, metaOk) ==
  /\ nOps < MaxOps
  /\ id \in LocalIds("projects")      \* result.changes = 0 throws 'Project not found'
  /\ local' = [local EXCEPT !["projects"] =
                 {IF r["id"] = id THEN [r EXCEPT !["name"] = name] ELSE r : r \in @}]
  /\ MarkPending("projects", id, metaOk)
  /\ nOps' = nOps + 1
  /\ Faults(F(metaOk))
  /\ UNCHANGED <<localSeq, remote, remoteSeq, origin, serviceVars, exportVars, retry, moduleVars>>

deleteProject(id, metaOk) ==
  /\ nOps < MaxOps
  /\ id \in LocalIds("projects")
  /\ local' = [local EXCEPT
                 !["tasks"] = {r \in @ : r["project_id"] # id},
                 !["projects"] = {r \in @ : r["id"] # id}]
  /\ MarkPending("projects", id, metaOk)
  /\ nOps' = nOps + 1
  /\ Faults(F(metaOk))
  /\ UNCHANGED <<localSeq, remote, remoteSeq, origin, serviceVars, exportVars, retry, moduleVars>>

createTask(projectId, title, description, metaOk) ==
  /\ nOps < MaxOps
  /\ LET taskId == localSeq["tasks"] + 1 IN
       /\ local' = [local EXCEPT !["tasks"] =
                      @ \cup {TaskRow(taskId, projectId, title, description)}]
       /\ localSeq' = [localSeq EXCEPT !["tasks"] = taskId]
       /\ MarkPending("tasks", taskId, metaOk)
  /\ nOps' = nOps + 1
  /\ Faults(F(metaOk))
  /\ UNCHANGED <<remote, remoteSeq, origin, serviceVars, exportVars, retry, moduleVars>>

\* variant of deleteTask that drops the metadata row of the deleted task
deleteTask_DropsMetadata(id, metaOk) ==
  /\ nOps < MaxOps
  /\ id \in LocalIds("tasks")
  /\ local' = [local EXCEPT
                 !["task_tags"] = {r \in @ : r["task_id"] # id},
                 !["tasks"] = {r \in @ : r["id"] # id}]
  /\ meta' = {m \in meta : ~(m.table_name = "tasks" /\ m.record_id = id)}
  /\ nOps' = nOps + 1
  /\ Faults(F(metaOk))
  /\ UNCHANGED <<clock, localSeq, remote, remoteSeq, origin, serviceVars, exportVars, retry, moduleVars>>

deleteTask(id, metaOk) ==
  /\ nOps < MaxOps
  /\ id \in LocalIds("tasks")
  /\ local' = [local EXCEPT
                 !["task_tags"] = {r \in @ : r["task_id"] # id},
                 !["tasks"] = {r \in @ : r["id"] # id}]
  /\ MarkPending("tasks", id, metaOk)
  /\ nOps' = nOps + 1
  /\ Faults(F(metaOk))
  /\ UNCHANGED <<localSeq, remote, remoteSeq, origin, serviceVars, exportVars, retry, moduleVars>>

deleteTag(id, metaOk) ==
  /\ nOps < MaxOps
  /\ id \in LocalIds("tags")          \* result.changes = 0 throws 'Tag not found'
  /\ local' = [local EXCEPT
                 !["task_tags"] = {r \in @ : r["tag_id"] # id},
                 !["tags"] = {r \in @ : r["id"] # id}]
  /\ MarkPending("tags", id, metaOk)
  /\ nOps' = nOps + 1
  /\ Faults(F(metaOk))
  /\ UNCHANGED <<localSeq, remote, remoteSeq, origin, serviceVars, exportVars, retry, moduleVars>>

----------------------------------------------------------------------------
(* Remote store client (Supabase tables) *)

RemoteIds(t) == {r["id"] : r \in remote[t]}

IdsOf(rows) == {r["id"] : r \in rows}

\* NOT NULL columns of the remote schema
RemoteNotNullColumns(t) ==
  CASE t = "projects"  -> {"name"}
    [] t = "tasks"     -> {"project_id", "title"}
    [] t = "tags"      -> {"name"}
    [] t = "task_tags" -> {"task_id", "tag_id"}

\* the remote schema rejects the row: NOT NULL, REFERENCES and UNIQUE
\* constraints of the remote tables, checked against the remote state rem
RemoteRejects(rem, t, row) ==
  \/ \E k \in RemoteNotNullColumns(t) : row[k] \in {Absent, Null}
  \/ t = "tasks" /\ row["project_id"] \notin IdsOf(rem["projects"])
  \/ t = "task_tags" /\ (\/ row["task_id"] \notin IdsOf(rem["tasks"])
                         \/ row["tag_id"] \notin IdsOf(rem["tags"]))
  \/ t = "tags" /\ \E r \in rem["tags"] : r["name"] = row["name"] /\ r["id"] # row["id"]

\* the primary key of the row is already taken
RemoteDuplicate(rem, t, row) ==
  IF t = "task_tags"
    THEN \E r \in rem[t] : r["task_id"] = row["task_id"] /\ r["tag_id"] = row["tag_id"]
    ELSE row["id"] \in IdsOf(rem[t])

\* ON DELETE CASCADE of the remote foreign keys: rows whose parent is gone
\* are deleted with it
Cascade(rem) ==
  LET tasks2 == {r \in rem["tasks"] : r["project_id"] \in IdsOf(rem["projects"])}
  IN [rem EXCEPT
        !["tasks"] = tasks2,
        !["task_tags"] = {r \in @ : /\ r["task_id"] \in IdsOf(tasks2)
                                    /\ r["tag_id"] \in IdsOf(rem["tags"])}]

\* supabase.from(t).delete().eq('id', sid)
RemoteDelete(rows, sid) == {r \in rows : r["id"] # sid}

\* supabase.from(t).update(data).eq('id', sid): the keys of data are written
\* variant of RemoteUpdate without the .eq('id', sid) filter
RemoteUpdate_Unaddressed(rows, sid, data) ==
  {[c \in Columns |-> IF data[c] # Absent THEN data[c] ELSE r[c]] : r \in rows}

RemoteUpdate(rows, sid, data) ==
  {IF r["id"] = sid
     THEN [c \in Columns |-> IF data[c] # Absent THEN data[c] ELSE r[c]]
     ELSE r : r \in rows}

\* the columns of the remote schema (updated_at is never read by the program)
RemoteColumns(t) ==
  CASE t = "projects"  -> {"id", "name", "created_at"}
    [] t = "tasks"     -> {"id", "project_id", "title", "description", "created_at"}
    [] t = "tags"      -> {"id", "name", "created_at"}
    [] t = "task_tags" -> {"task_id", "tag_id"}

\* the row supabase.from(t).insert(data) stores: a row without an id gets the
\* next value of the SERIAL sequence, created_at gets its default
RemoteNewRow(t, data, nextId) ==
  [c \in Columns |->
     CASE c = "id" /\ c \in RemoteColumns(t) ->
            IF data["id"] = Absent THEN nextId ELSE data["id"]
       [] c = "created_at" /\ c \in RemoteColumns(t) ->
            IF data[c] = Absent THEN 1 ELSE data[c]
       [] OTHER -> data[c]]

----------------------------------------------------------------------------
(* SyncService: one sync() call *)

ErrNone == "none"
ErrNoConnection == "No internet connection or Supabase unavailable"
ErrNotConfigured == "Supabase not configured"
ErrStore == "local store error"

InitCall ==
  [pc |-> "idle", force |-> FALSE, syncStartTime |-> 0, changes |-> <<>>, i |-> 0,
   uploadedCount |-> 0, upErrorCount |-> 0,
   downloadedCount |-> 0, downErrorCount |-> 0,
   error |-> ErrNone, failed |-> {}, result |-> "none",
   events |-> <<>>]     \* what notifyListeners delivered for this call, in order

\* notifyListeners(status, data) as seen by a subscribed listener
notifyListeners(evs, status) == Append(evs, status)

\* a callback in SyncService.syncListeners: whether it throws when called,
\* the status it was last called with, its position among the callbacks
\* called by that notifyListeners() call, and how often it was called
Listener(id, throws) ==
  [id |-> id, throws |-> throws, status |-> "idle", order |-> 0, received |-> 0,
   inProgress |-> syncInProgress]

\* variant of forEachListener without the try/catch around the callback: the
\* first callback that throws ends the loop and the exception leaves
\* notifyListeners
forEachListener_NoCatch(ls, status, inProgress) ==
  LET throwers == {k \in 1..Len(ls) : ls[k].throws}
      stop == IF throwers = {} THEN Len(ls)
              ELSE CHOOSE k \in throwers : \A j \in throwers : k <= j
  IN [listeners |->
        [k \in 1..Len(ls) |->
           IF k <= stop
             THEN [ls[k] EXCEPT !.status = status, !.order = k, !.received = @ + 1,
                                !.inProgress = inProgress]
             ELSE ls[k]],
      threw |-> throwers # {}]

\* this.syncListeners.forEach(callback => { try { callback({status, ...data}) }
\* catch (error) { console.error(...) } }): a Set is visited in insertion order.
\* The field inProgress of a callback is the syncInProgress of the
\* getSyncStatus() it reads when it is called, as the callback of
\* useSyncStatus() does.
forEachListener(ls, status, inProgress) ==
  [listeners |->
     [k \in 1..Len(ls) |->
        [ls[k] EXCEPT !.status = status, !.order = k, !.received = @ + 1,
                      !.inProgress = inProgress]],
   threw |-> FALSE]

\* addSyncListener(callback): Set.add appends a callback that is not in the
\* set and leaves the set alone otherwise
addSyncListener(id, throws) ==
  /\ Len(syncListeners) < MaxListeners
  /\ \A k \in 1..Len(syncListeners) : syncListeners[k].id # id
  /\ syncListeners' = Append(syncListeners, Listener(id, throws))
  /\ UNCHANGED <<storeVars, syncLog, syncInProgress, isOnline, lastSyncTime, nCalls,
                 call, notifyThrew, nOps, exportVars, retry, moduleVars, nFaults>>

\* the function addSyncListener returns: () => this.syncListeners.delete(callback)
unsubscribe(id) ==
  /\ \E k \in 1..Len(syncListeners) : syncListeners[k].id = id
  /\ syncListeners' = SelectSeq(syncListeners, LAMBDA l : l.id # id)
  /\ UNCHANGED <<storeVars, syncLog, syncInProgress, isOnline, lastSyncTime, nCalls,
                 call, notifyThrew, nOps, exportVars, retry, moduleVars, nFaults>>

\* one notifyListeners(status) call
Publish(status) ==
  /\ \A k \in 1..Len(syncListeners) : syncListeners[k].received < MaxEvents
  /\ LET r == forEachListener(syncListeners, status, syncInProgress)
     IN syncListeners' = r.listeners /\ notifyThrew' = r.threw
  /\ UNCHANGED <<storeVars, syncLog, syncInProgress, isOnline, lastSyncTime, nCalls,
                 call, nOps, exportVars, retry, moduleVars, nFaults>>

\* this.syncInProgress while a notifyListeners() call of call c runs, which
\* is what a callback gets from getSyncStatus(): sync() sets the flag before
\* its first broadcast and clears it in its finally block, which runs after
\* the broadcast of the try block or of the catch block
getSyncStatus(c) == syncInProgress \/ call[c].pc = "idle"

\* the notifyListeners() call, if any, made by the step of call c
Delivers(c) ==
  IF Len(call'[c].events) > Len(call[c].events)
    THEN LET r == forEachListener(syncListeners, call'[c].events[Len(call'[c].events)],
                                  getSyncStatus(c))
         IN syncListeners' = r.listeners /\ notifyThrew' = r.threw
    ELSE UNCHANGED <<syncListeners, notifyThrew>>

\* if (this.syncInProgress && !force) return {success: false, message: ...}
SyncRejects(force) == syncInProgress /\ ~force

\* sync(force), up to its first await
SyncCall(force) ==
  /\ nCalls < MaxCalls
  /\ LET c == nCalls + 1 IN
       /\ nCalls' = c
       /\ IF SyncRejects(force)
            THEN /\ call' = [call EXCEPT ![c] =
                      [@ EXCEPT !.pc = "done", !.force = force,
                                !.syncStartTime = clock, !.result = "rejected"]]
                 /\ UNCHANGED syncInProgress
            ELSE /\ syncInProgress' = TRUE
                 /\ call' = [call EXCEPT ![c] =
                      [@ EXCEPT !.pc = "check", !.force = force,
                                !.syncStartTime = clock,
                                !.events = notifyListeners(@, "syncing")]]
  /\ Delivers(nCalls + 1)
  /\ UNCHANGED <<storeVars, syncLog, isOnline, lastSyncTime, nOps, exportVars, retry, moduleVars, nFaults>>

\* the callback that the effect of useSync() registers
HookId == 1

\* the syncInProgress state of the mounted useSync() hook: set by its listener
\* to status === SYNCING on every event
HookSyncInProgress ==
  \E k \in 1..Len(syncListeners) :
    syncListeners[k].id = HookId /\ syncListeners[k].status = "syncing"

\* the mount effect of useSync(): addSyncListener(...) and the initial state
\* read from getSyncStatus().  The screen mounts before the first sync() call,
\* so the hook starts with isOnline = true and syncInProgress = false.
useSync ==
  /\ nCalls = 0
  /\ \A k \in 1..Len(syncListeners) : syncListeners[k].id # HookId
  /\ syncListeners' = Append(syncListeners, Listener(HookId, FALSE))
  /\ UNCHANGED <<storeVars, syncLog, syncInProgress, isOnline, lastSyncTime, nCalls,
                 call, notifyThrew, nOps, exportVars, retry, moduleVars, nFaults>>

\* a tick of the interval of useAutoSync(): the interval exists while
\* autoSyncEnabled && isOnline && !syncInProgress hold in the hook, and its
\* callback awaits sync() without force
useAutoSync ==
  /\ \E k \in 1..Len(syncListeners) : syncListeners[k].id = HookId
  /\ ~HookSyncInProgress
  /\ SyncCall(FALSE)

\* handleSync of the sync button: syncService.sync(true)
handleSync == SyncCall(TRUE)

\* checkConnection() and the branch of sync() on its result
CheckConnection(c, outcome) ==
  /\ call[c].pc = "check"
  /\ CASE outcome = "ok" ->
            /\ isOnline' = TRUE
            /\ call' = [call EXCEPT ![c].pc = "pending",
                                    ![c].events = notifyListeners(@, "syncing")]
       [] outcome = "offline" ->
            /\ isOnline' = FALSE
            /\ call' = [call EXCEPT ![c].pc = "catch", ![c].error = ErrNoConnection]
       [] outcome = "unconfigured" ->
            /\ call' = [call EXCEPT ![c].pc = "catch", ![c].error = ErrNotConfigured]
            /\ UNCHANGED isOnline
  /\ Delivers(c)
  /\ Faults(F(outcome = "ok"))
  /\ UNCHANGED <<storeVars, syncLog, syncInProgress, lastSyncTime, nCalls, nOps,
                 exportVars, retry, moduleVars>>

\* uploadToSupabase(), up to the start of its loop.
\* outcome "ok": the query runs; "empty": sync_metadata is unavailable and the
\* query failure is swallowed; "throw": withRetry gives up.
UploadFetch(c, outcome) ==
  /\ call[c].pc = "pending"
  /\ LET changes == IF outcome = "ok" THEN getPendingChanges(meta) ELSE <<>> IN
       CASE outcome = "throw" ->
              call' = [call EXCEPT ![c].pc = "catch", ![c].error = ErrStore]
         [] outcome # "throw" /\ changes = <<>> ->
              call' = [call EXCEPT ![c].pc = "download",
                                   ![c].events = notifyListeners(@, "syncing")]
         [] OTHER ->
              call' = [call EXCEPT ![c].pc = "upload", ![c].changes = changes]
  /\ Delivers(c)
  /\ Faults(F(outcome = "ok"))
  /\ UNCHANGED <<storeVars, syncLog, syncInProgress, isOnline, lastSyncTime, nCalls,
                 nOps, exportVars, retry, moduleVars>>

\* one iteration of the loop of uploadToSupabase() over the fetched changes.
\* readOk: getLocalRecord succeeds; remoteOk: the remote accepts the operation;
\* markOk: the metadata write of the try block succeeds; errMarkOk: the
\* metadata write of the catch block succeeds.
UploadRecord(c, readOk, remoteOk, markOk, errMarkOk) ==
  /\ call[c].pc = "upload"
  /\ LET change == call[c].changes[call[c].i + 1]
         t == change.table_name
         id == change.record_id
         sid == change.supabase_id
         readFails == ~readOk \/ "id" \notin getLocalTableColumns(t)
         found == ById(local[t], id)
         present == found # {}
         localRecord == CHOOSE r \in found : TRUE
         supabaseData == [localRecord EXCEPT !["id"] = Absent]
         kind == IF ~present THEN (IF sid # Null THEN "delete" ELSE "none")
                 ELSE IF sid # Null THEN "update" ELSE "insert"
         nextId == remoteSeq[t] + 1
         newRow == RemoteNewRow(t, supabaseData, nextId)
         updated == [remote EXCEPT ![t] = RemoteUpdate(@, sid, supabaseData)]
         remoteFails ==
           /\ kind # "none"
           /\ \/ ~remoteOk
              \/ /\ kind = "update"
                 /\ \/ sid \notin RemoteIds(t)                 \* .single() finds no row
                    \/ \E r \in ById(updated[t], sid) : RemoteRejects(remote, t, r)
              \/ /\ kind = "insert"
                 /\ \/ RemoteDuplicate(remote, t, newRow)
                    \/ RemoteRejects(remote, t, newRow)
         tryOk == ~readFails /\ ~remoteFails /\ markOk
         last == call[c].i + 1 = Len(call[c].changes)
     IN
       /\ remote' =
            IF readFails \/ remoteFails THEN remote
            ELSE CASE kind = "delete" -> Cascade([remote EXCEPT ![t] = RemoteDelete(@, sid)])
                   [] kind = "update" -> updated
                   [] kind = "insert" -> [remote EXCEPT ![t] = @ \cup {newRow}]
                   [] OTHER -> remote
       /\ remoteSeq' =
            IF ~readFails /\ kind = "insert" /\ remoteOk
              THEN [remoteSeq EXCEPT ![t] = nextId] ELSE remoteSeq
       /\ origin' =
            IF ~readFails /\ ~remoteFails /\ kind = "insert"
              THEN origin \cup {<<t, id, nextId>>} ELSE origin
       /\ meta' =
            IF tryOk
              THEN updateSyncMetadata(meta, t, id, "synced",
                     IF ~present THEN Absent ELSE IF kind = "update" THEN sid ELSE nextId)
              ELSE IF errMarkOk THEN updateSyncMetadata(meta, t, id, "error", Absent)
              ELSE meta
       /\ call' = [call EXCEPT ![c] =
            [@ EXCEPT
               !.i = @ + 1,
               !.uploadedCount = IF tryOk THEN @ + 1 ELSE @,
               !.upErrorCount = IF tryOk THEN @ ELSE @ + 1,
               !.failed = IF tryOk THEN @ ELSE @ \cup {call[c].i + 1},
               !.error = IF ~tryOk /\ ~errMarkOk THEN ErrStore ELSE @,
               !.pc = IF ~tryOk /\ ~errMarkOk THEN "catch"
                      ELSE IF last THEN "download" ELSE "upload",
               !.events = IF (tryOk \/ errMarkOk) /\ last
                            THEN notifyListeners(@, "syncing") ELSE @]]
  /\ Delivers(c)
  /\ Faults(F(readOk) + F(remoteOk) + F(markOk) + F(errMarkOk))
  /\ UNCHANGED <<local, localSeq, clock, syncLog, syncInProgress, isOnline,
                 lastSyncTime, nCalls, nOps, exportVars, retry, moduleVars>>

Max(a, b) == IF a >= b THEN a ELSE b

\* variant of UpdateFields without the filter on the local schema
UpdateFields_Unfiltered(t, rec) == Keys(rec) \ {"id"}

\* the columns of a remote row that the download writes into an existing local
\* row: key !== 'id' && localColumns.includes(key)
UpdateFields(t, rec) == (Keys(rec) \ {"id"}) \cap getLocalTableColumns(t)

\* the columns of a remote row that the download inserts: localColumns.includes(key)
FieldsToInsert(t, rec) == Keys(rec) \cap getLocalTableColumns(t)

\* UPDATE t SET <UpdateFields> WHERE id = rec.id
LocalUpdateFromRemote(rows, t, rec) ==
  {IF r["id"] = rec["id"]
     THEN [c \in Columns |-> IF c \in UpdateFields(t, rec) THEN rec[c] ELSE r[c]]
     ELSE r : r \in rows}

\* the row INSERT INTO t (<FieldsToInsert>) VALUES (...) creates
LocalRowFromRemote(t, rec, seq) ==
  [c \in Columns |->
     IF c \in FieldsToInsert(t, rec) THEN rec[c]
     ELSE IF c = "id" /\ c \in getLocalTableColumns(t) THEN seq + 1
     ELSE IF c \in getLocalTableColumns(t) THEN Null
     ELSE Absent]

\* variant of DownloadRecord whose catch block does not count the error
DownloadRecord_ErrorUncounted(st, t, rec, outcome) ==
  LET cols == getLocalTableColumns(t)
      existing == ById(st.rows, rec["id"]) # {}
      constraintFails ==
        IF existing
          THEN \E k \in UpdateFields(t, rec) \cap NotNullColumns(t) : rec[k] = Null
          ELSE FieldsToInsert(t, rec) # {} /\
               \E k \in NotNullColumns(t) : k \notin FieldsToInsert(t, rec) \/ rec[k] = Null
      localFails == "id" \notin cols \/ outcome = "fail_read" \/ constraintFails
      newRow == LocalRowFromRemote(t, rec, st.seq)
      rows2 == IF existing THEN LocalUpdateFromRemote(st.rows, t, rec)
               ELSE IF FieldsToInsert(t, rec) = {} THEN st.rows
               ELSE st.rows \cup {newRow}
      seq2 == IF ~existing /\ FieldsToInsert(t, rec) # {}
                THEN Max(st.seq, newRow["id"]) ELSE st.seq
  IN IF localFails
       THEN st
     ELSE IF outcome = "fail_meta"
       THEN [st EXCEPT !.rows = rows2, !.seq = seq2]
     ELSE [rows |-> rows2, seq |-> seq2,
           m |-> updateSyncMetadata(st.m, t, rec["id"], "synced", rec["id"]),
           downloaded |-> st.downloaded + 1, errors |-> st.errors]

\* the body of the per-record try block of downloadFromSupabase() applied to
\* the download state st = [rows, seq, m, downloaded, errors].
\* outcome "ok", "fail_read" (the local store fails before any write) or
\* "fail_meta" (the local write is applied, the metadata write fails).
DownloadRecord(st, t, rec, outcome) ==
  LET cols == getLocalTableColumns(t)
      existing == ById(st.rows, rec["id"]) # {}
      constraintFails ==
        IF existing
          THEN \E k \in UpdateFields(t, rec) \cap NotNullColumns(t) : rec[k] = Null
          ELSE FieldsToInsert(t, rec) # {} /\
               \E k \in NotNullColumns(t) : k \notin FieldsToInsert(t, rec) \/ rec[k] = Null
      localFails == "id" \notin cols \/ outcome = "fail_read" \/ constraintFails
      newRow == LocalRowFromRemote(t, rec, st.seq)
      rows2 == IF existing THEN LocalUpdateFromRemote(st.rows, t, rec)
               ELSE IF FieldsToInsert(t, rec) = {} THEN st.rows
               ELSE st.rows \cup {newRow}
      seq2 == IF ~existing /\ FieldsToInsert(t, rec) # {}
                THEN Max(st.seq, newRow["id"]) ELSE st.seq
  IN IF localFails
       THEN [st EXCEPT !.errors = @ + 1]
     ELSE IF outcome = "fail_meta"
       THEN [st EXCEPT !.rows = rows2, !.seq = seq2, !.errors = @ + 1]
     ELSE [rows |-> rows2, seq |-> seq2,
           m |-> updateSyncMetadata(st.m, t, rec["id"], "synced", rec["id"]),
           downloaded |-> st.downloaded + 1, errors |-> st.errors]

\* for (const supabaseRecord of data) { ... } over the rows of one table.
\* failRead / failMeta: the <<table, row>> pairs whose processing fails.
RECURSIVE DownloadRecords(_, _, _, _, _)
DownloadRecords(st, t, data, failRead, failMeta) ==
  IF data = {} THEN st
  ELSE LET rec == CHOOSE r \in data : \A z \in data : r["id"] <= z["id"]
           outcome == IF <<t, rec>> \in failRead THEN "fail_read"
                      ELSE IF <<t, rec>> \in failMeta THEN "fail_meta" ELSE "ok"
       IN DownloadRecords(DownloadRecord(st, t, rec, outcome), t, data \ {rec},
                          failRead, failMeta)

\* one iteration of the loop of downloadFromSupabase() over SYNC_CONFIG.TABLES,
\* applied to the download state d = [local, seq, m, downloaded, errors].
\* failSelect: the tables whose select fails.
DownloadTable(d, tableName, failSelect, failRead, failMeta) ==
  IF tableName \in failSelect
    THEN [d EXCEPT !.errors = @ + 1]
    ELSE LET st == DownloadRecords(
                     [rows |-> d.local[tableName], seq |-> d.seq[tableName], m |-> d.m,
                      downloaded |-> d.downloaded, errors |-> d.errors],
                     tableName, remote[tableName], failRead, failMeta)
         IN [local |-> [d.local EXCEPT ![tableName] = st.rows],
             seq |-> [d.seq EXCEPT ![tableName] = st.seq],
             m |-> st.m, downloaded |-> st.downloaded, errors |-> st.errors]

\* for (const tableName of SYNC_CONFIG.TABLES) { ... }, from index k on
RECURSIVE DownloadTables(_, _, _, _, _, _)
DownloadTables(d, order, k, failSelect, failRead, failMeta) ==
  IF k > Len(order) THEN d
  ELSE DownloadTables(DownloadTable(d, order[k], failSelect, failRead, failMeta),
                      order, k + 1, failSelect, failRead, failMeta)

\* the subsets of S with at most k elements
RECURSIVE SubsetsUpTo(_, _)
SubsetsUpTo(S, k) ==
  IF k <= 0 THEN {{}}
  ELSE LET P == SubsetsUpTo(S, k - 1) IN P \cup {X \cup {a} : X \in P, a \in S}

\* what may fail in a download phase: the select of a table, the local read
\* or write for a row, the metadata write for a row
DownloadFaultItems ==
  {<<"select", t, EmptyRow>> : t \in TableNames}
    \cup UNION {{<<"read", t, r>> : r \in remote[t]} \cup
                 {<<"meta", t, r>> : r \in remote[t]} : t \in TableNames}

\* the failures the environment may inject into one download phase
DownloadFaults ==
  {[select |-> {x[2] : x \in {y \in X : y[1] = "select"}},
    read |-> {<<x[2], x[3]>> : x \in {y \in X : y[1] = "read"}},
    meta |-> {<<x[2], x[3]>> : x \in {y \in X : y[1] = "meta"}}] :
     X \in SubsetsUpTo(DownloadFaultItems, MaxFaults - nFaults)}

\* downloadFromSupabase() and the statements of sync() that follow it up to
\* the next await
DownloadPhase(c, f) ==
  /\ call[c].pc = "download"
  /\ LET d == DownloadTables([local |-> local, seq |-> localSeq, m |-> meta,
                              downloaded |-> 0, errors |-> 0],
                             tables, 1, f.select, f.read, f.meta)
     IN
       /\ local' = d.local
       /\ localSeq' = d.seq
       /\ meta' = d.m
       /\ call' = [call EXCEPT ![c] =
            [@ EXCEPT !.downloadedCount = d.downloaded,
                      !.downErrorCount = d.errors,
                      !.pc = "log"]]
       /\ lastSyncTime' = c
  /\ Faults(Cardinality(f.select) + Cardinality(f.read) + Cardinality(f.meta))
  /\ UNCHANGED <<remote, remoteSeq, origin, clock, syncLog, syncInProgress, isOnline,
                 busVars,
                 nCalls, nOps, exportVars, retry, moduleVars>>

\* variant of logSyncOperation that writes its entry twice
logSyncOperation_Twice(log, outcome, status, recordsSynced) ==
  IF outcome = "ok"
    THEN log \o << [status |-> status, records_synced |-> recordsSynced],
                   [status |-> status, records_synced |-> recordsSynced] >>
    ELSE log

\* logSyncOperation(): outcome "ok" appends the entry, "skip" swallows the
\* failure of the insert, "throw" is withRetry giving up
logSyncOperation(log, outcome, status, recordsSynced) ==
  IF outcome = "ok"
    THEN Append(log, [status |-> status, records_synced |-> recordsSynced])
    ELSE log

\* the end of the try block of sync(): log, broadcast, return, finally
LogSuccess(c, outcome) ==
  /\ call[c].pc = "log"
  /\ IF outcome = "throw"
       THEN /\ call' = [call EXCEPT ![c].pc = "catch", ![c].error = ErrStore]
            /\ UNCHANGED <<syncLog, syncInProgress>>
       ELSE /\ syncLog' = logSyncOperation(syncLog, outcome, "success",
                            call[c].uploadedCount + call[c].downloadedCount)
            /\ call' = [call EXCEPT ![c].pc = "done", ![c].result = "success",
                                    ![c].events = notifyListeners(@, "success")]
            /\ syncInProgress' = FALSE
  /\ Delivers(c)
  /\ Faults(F(outcome = "ok"))
  /\ UNCHANGED <<storeVars, isOnline, lastSyncTime, nCalls, nOps, exportVars, retry, moduleVars>>

\* variant of LogError without the finally block: the lock is released by the
\* return statement of the catch block only
LogError_ReleasesOnReturn(c, outcome) ==
  /\ call[c].pc = "catch"
  /\ IF outcome = "throw"
       THEN /\ call' = [call EXCEPT ![c].pc = "done", ![c].result = "thrown"]
            /\ UNCHANGED <<syncLog, syncInProgress>>
       ELSE /\ syncLog' = logSyncOperation(syncLog, outcome, "error", 0)
            /\ call' = [call EXCEPT ![c].pc = "done", ![c].result = "error",
                                    ![c].events = notifyListeners(@, "error")]
            /\ syncInProgress' = FALSE
  /\ Delivers(c)
  /\ Faults(F(outcome = "ok"))
  /\ UNCHANGED <<storeVars, isOnline, lastSyncTime, nCalls, nOps, exportVars, retry, moduleVars>>

\* the catch block of sync(): log, broadcast, return, finally
LogError(c, outcome) ==
  /\ call[c].pc = "catch"
  /\ IF outcome = "throw"
       THEN /\ call' = [call EXCEPT ![c].pc = "done", ![c].result = "thrown"]
            /\ UNCHANGED syncLog
       ELSE /\ syncLog' = logSyncOperation(syncLog, outcome, "error", 0)
            /\ call' = [call EXCEPT ![c].pc = "done", ![c].result = "error",
                                    ![c].events = notifyListeners(@, "error")]
  /\ syncInProgress' = FALSE
  /\ Delivers(c)
  /\ Faults(F(outcome = "ok"))
  /\ UNCHANGED <<storeVars, isOnline, lastSyncTime, nCalls, nOps, exportVars, retry, moduleVars>>

\* clearSyncMetadata(): DELETE FROM sync_metadata, then DELETE FROM sync_log,
\* two statements with no transaction around them, inside withRetry.
\* outcome "ok": an attempt runs both; "fail_first": the first statement
\* fails in every attempt; "fail_second": the second statement fails in every
\* attempt, after the first one was applied.  The last two throw.
clearSyncMetadata(outcome) ==
  /\ meta # {} \/ syncLog # <<>>
  /\ meta' = IF outcome = "fail_first" THEN meta ELSE {}
  /\ syncLog' = IF outcome = "ok" THEN <<>> ELSE syncLog
  /\ Faults(F(outcome = "ok"))
  /\ UNCHANGED <<local, localSeq, remote, remoteSeq, origin, clock, syncInProgress,
                 isOnline, lastSyncTime, nCalls, call, busVars, nOps, exportVars, retry, moduleVars>>

----------------------------------------------------------------------------
(* SyncService: bulk export *)

NoResults ==
  [t \in TableNames |->
     [exported |-> 0, skipped |-> 0, errors |-> 0, progress |-> 0, failed |-> FALSE]]

NoExport ==
  [pc |-> "idle", clearSupabaseFirst |-> FALSE, skipExisting |-> TRUE, k |-> 0,
   totalExported |-> 0, totalErrors |-> 0, results |-> NoResults, result |-> "none"]

\* Array.prototype.reverse(): the array object itself is reversed
Reverse(a) == [j \in 1..Len(a) |-> a[Len(a) + 1 - j]]

\* exportAllDataToSupabase(options), up to its first await
ExportCall(clearSupabaseFirst, skipExisting) ==
  /\ nExports < MaxExports
  /\ ex.pc \in {"idle", "done"}
  /\ nExports' = nExports + 1
  /\ ex' = [NoExport EXCEPT !.pc = "check",
                            !.clearSupabaseFirst = clearSupabaseFirst,
                            !.skipExisting = skipExisting]
  /\ UNCHANGED <<storeVars, serviceVars, tables, nOps, retry, moduleVars, nFaults>>

\* checkConnection() of the export and the branch on its result
ExportCheck(outcome) ==
  /\ ex.pc = "check"
  /\ CASE outcome = "ok" ->
            /\ isOnline' = TRUE
            /\ tables' = IF ex.clearSupabaseFirst THEN Reverse(tables) ELSE tables
            /\ ex' = [ex EXCEPT !.pc = IF ex.clearSupabaseFirst THEN "clear" ELSE "export",
                                !.k = 1]
       [] outcome = "offline" ->
            /\ isOnline' = FALSE
            /\ ex' = [ex EXCEPT !.pc = "done", !.result = "error"]
            /\ UNCHANGED tables
       [] outcome = "unconfigured" ->
            /\ ex' = [ex EXCEPT !.pc = "done", !.result = "error"]
            /\ UNCHANGED <<isOnline, tables>>
  /\ Faults(F(outcome = "ok"))
  /\ UNCHANGED <<storeVars, syncLog, syncInProgress, lastSyncTime, nCalls, call,
                 busVars,
                 nOps, nExports, retry, moduleVars>>

\* variant of ExportClear that also forgets the metadata of the cleared table
ExportClear_ForgetsMetadata(ok) ==
  /\ ex.pc = "clear"
  /\ LET t == tables[ex.k]
         cleared == ok /\ "id" \in RemoteColumns(t)
     IN /\ remote' = IF cleared THEN Cascade([remote EXCEPT ![t] = {}]) ELSE remote
        /\ meta' = IF cleared THEN {m \in meta : m.table_name # t} ELSE meta
        /\ ex' = IF ex.k = Len(tables)
                   THEN [ex EXCEPT !.pc = "export", !.k = 1]
                   ELSE [ex EXCEPT !.k = @ + 1]
  /\ Faults(F(ok))
  /\ UNCHANGED <<local, localSeq, remoteSeq, origin, clock, serviceVars,
                 tables, nOps, nExports, retry, moduleVars>>

\* one iteration of the clear loop: supabase.from(t).delete().neq('id', 0);
\* an error of the request is caught and logged
ExportClear(ok) ==
  /\ ex.pc = "clear"
  /\ LET t == tables[ex.k]
         cleared == ok /\ "id" \in RemoteColumns(t)
     IN /\ remote' = IF cleared THEN Cascade([remote EXCEPT ![t] = {}]) ELSE remote
        /\ ex' = IF ex.k = Len(tables)
                   THEN [ex EXCEPT !.pc = "export", !.k = 1]
                   ELSE [ex EXCEPT !.k = @ + 1]
  /\ Faults(F(ok))
  /\ UNCHANGED <<local, localSeq, remoteSeq, origin, meta, clock, serviceVars,
                 tables, nOps, nExports, retry, moduleVars>>

\* the loops of exportTableToSupabase() over the local records, applied to
\* acc = [rem, exported, skipped, errors, progress]; failInsert: the records
\* whose insert request fails
RECURSIVE ExportRecords(_, _, _, _, _)
ExportRecords(acc, t, records, skipExisting, failInsert) ==
  IF records = {} THEN acc
  ELSE LET record == CHOOSE r \in records :
                       \A z \in records :
                         \/ r["id"] < z["id"]
                         \/ r["id"] = z["id"] /\ r["task_id"] < z["task_id"]
                         \/ /\ r["id"] = z["id"] /\ r["task_id"] = z["task_id"]
                            /\ r["tag_id"] <= z["tag_id"]
           existing == /\ skipExisting
                       /\ "id" \in RemoteColumns(t)
                       /\ record["id"] \in IdsOf(acc.rem[t])
           row == RemoteNewRow(t, record, 0)
           rejected == \/ record \in failInsert
                       \/ RemoteDuplicate(acc.rem, t, row)
                       \/ RemoteRejects(acc.rem, t, row)
           acc2 == IF existing THEN [acc EXCEPT !.skipped = @ + 1]
                   ELSE IF rejected
                     THEN [acc EXCEPT !.errors = @ + 1, !.progress = @ + 1]
                   ELSE [acc EXCEPT !.rem = [@ EXCEPT ![t] = @ \cup {row}],
                                    !.exported = @ + 1, !.progress = @ + 1]
       IN ExportRecords(acc2, t, records \ {record}, skipExisting, failInsert)

\* one iteration of the export loop of exportAllDataToSupabase():
\* exportTableToSupabase(t) and the accumulation of its result; after the last
\* table the report is returned.  readOk = FALSE: withRetry gives up.
ExportTable(readOk, failInsert) ==
  /\ ex.pc = "export"
  /\ LET t == tables[ex.k]
         acc == ExportRecords([rem |-> remote, exported |-> 0, skipped |-> 0,
                               errors |-> 0, progress |-> 0],
                              t, local[t], ex.skipExisting, failInsert)
         tableResults ==
           IF readOk
             THEN [exported |-> acc.exported, skipped |-> acc.skipped,
                   errors |-> acc.errors, progress |-> acc.progress, failed |-> FALSE]
             ELSE [exported |-> 0, skipped |-> 0, errors |-> 1, progress |-> 0,
                   failed |-> TRUE]
         last == ex.k = Len(tables)
     IN /\ failInsert \subseteq local[t]
        /\ ~readOk => failInsert = {}
        /\ remote' = IF readOk THEN acc.rem ELSE remote
        /\ ex' = [ex EXCEPT
                    !.results = [@ EXCEPT ![t] = tableResults],
                    !.totalExported = @ + tableResults.exported,
                    !.totalErrors = @ + tableResults.errors,
                    !.k = IF last THEN @ ELSE @ + 1,
                    !.pc = IF last THEN "done" ELSE "export",
                    !.result = IF last THEN "success" ELSE @]
  /\ Faults(F(readOk) + Cardinality(failInsert))
  /\ UNCHANGED <<local, localSeq, remoteSeq, origin, meta, clock, serviceVars,
                 tables, nOps, nExports, retry, moduleVars>>

----------------------------------------------------------------------------
(* Local store: withRetry *)

\* maxRetries = 3, the default of the parameter of withRetry
maxRetries == 3

\* what the wrapped operation may return ...
OperationValues == {"v1", "v2"}

\* ... and what it may throw: an error of an invalidated handle, an error of
\* a schema or constraint violation
OperationErrors == {"transient", "constraint"}

\* the error of initDatabase() when the store cannot be opened
ErrOpen == "open_failed"

\* let db; no withRetry() call made
NoRetry ==
  [pc |-> "idle", k |-> 0, i |-> 0, db |-> "null", runs |-> 0, opens |-> 0,
   trace |-> <<>>, lastError |-> "none", result |-> "none", error |-> "none"]

\* variant of withRetryIteration that keeps the first error
withRetryIteration_KeepsFirstError(r, initOk, outcome) ==
  LET opened == r.db = "null" /\ initOk
      initFailed == r.db = "null" /\ ~initOk
      err == IF initFailed THEN ErrOpen ELSE outcome
      kept == IF r.lastError = "none" THEN err ELSE r.lastError
      last == r.i + 1 = maxRetries
  IN IF ~initFailed /\ outcome \in OperationValues
       THEN [r EXCEPT !.pc = "returned", !.db = "open",
                      !.runs = @ + 1, !.opens = @ + F(~opened),
                      !.trace = Append(@, outcome), !.result = outcome]
       ELSE [r EXCEPT !.pc = IF last THEN "thrown" ELSE "running",
                      !.i = @ + 1, !.db = "null",
                      !.runs = @ + F(initFailed), !.opens = @ + F(~opened),
                      !.trace = Append(@, err), !.lastError = kept,
                      !.error = IF last THEN kept ELSE @]

\* one iteration of the loop of withRetry() applied to r: await initDatabase()
\* (which returns at once when db is set and opens the store otherwise),
\* return await operation(), and the catch block (lastError = error; db = null;
\* initPromise = null; the delay); after the last iteration, throw lastError.
\* initOk: the store can be opened; outcome: what the operation returns or
\* throws when it runs.
withRetryIteration(r, initOk, outcome) ==
  LET opened == r.db = "null" /\ initOk
      initFailed == r.db = "null" /\ ~initOk
      err == IF initFailed THEN ErrOpen ELSE outcome
      last == r.i + 1 = maxRetries
  IN IF ~initFailed /\ outcome \in OperationValues
       THEN [r EXCEPT !.pc = "returned", !.db = "open",
                      !.runs = @ + 1, !.opens = @ + F(~opened),
                      !.trace = Append(@, outcome), !.result = outcome]
       ELSE [r EXCEPT !.pc = IF last THEN "thrown" ELSE "running",
                      !.i = @ + 1, !.db = "null",
                      !.runs = @ + F(initFailed), !.opens = @ + F(~opened),
                      !.trace = Append(@, err), !.lastError = err,
                      !.error = IF last THEN err ELSE @]

\* a call withRetry(operation): let lastError; i = 0
withRetryCall ==
  /\ retry.pc # "running"
  /\ retry.k < MaxCalls
  /\ retry' = [NoRetry EXCEPT !.pc = "running", !.k = retry.k + 1, !.db = retry.db]
  /\ UNCHANGED <<storeVars, serviceVars, exportVars, moduleVars, nOps, nFaults>>

\* one iteration of the loop of the running call
withRetryStep(initOk, outcome) ==
  /\ retry.pc = "running"
  /\ retry.db = "open" => initOk
  /\ retry' = withRetryIteration(retry, initOk, outcome)
  /\ UNCHANGED <<storeVars, serviceVars, exportVars, moduleVars, nOps, nFaults>>

----------------------------------------------------------------------------
(* Local store: concurrent callers of initDatabase() and withRetry() *)

Callers == 1..MaxCallers
Runs == 1..MaxRuns

\* the error 'Task not found' of an operation; any other failure of a
\* statement is ErrStore, a rejected initDatabase() is ErrOpen
ErrNotFound == "not_found"

\* a caller that has not called withRetry().  kind, arg: the operation and
\* its argument; i: the loop counter; awaits: the _initDatabase() run whose
\* promise the caller awaits; handle: what getDb() returned to the running
\* operation; nested, outerI: the operation is at its insertSyncMetadata()
\* call, which runs its own withRetry() loop, and the counter of the loop
\* around it; existed: the record of a delete was there when the call started
NoOp ==
  [pc |-> "idle", kind |-> "none", arg |-> 0, i |-> 0, awaits |-> 0,
   handle |-> Null, nested |-> FALSE, outerI |-> 0, existed |-> FALSE,
   error |-> "none"]

\* let db; let initPromise = null; nothing called yet
StoreClosed ==
  /\ db = Null
  /\ initPromise = Null
  /\ inits = [r \in Runs |-> "none"]
  /\ ops = [c \in Callers |-> NoOp]

\* the catch block of withRetry() in caller record o, for error err:
\* lastError = error, the delay, the next iteration; after the last iteration
\* throw lastError, which, when the loop is the one of insertSyncMetadata(),
\* is caught by the loop around it
catch(o, err) ==
  LET last == o.i + 1 = maxRetries
      outerLast == o.outerI + 1 = maxRetries
  IN CASE ~last ->
            [o EXCEPT !.pc = "enter", !.i = @ + 1, !.handle = Null, !.error = err]
       [] last /\ ~o.nested ->
            [o EXCEPT !.pc = "thrown", !.i = @ + 1, !.handle = Null, !.error = err]
       [] last /\ o.nested /\ ~outerLast ->
            [o EXCEPT !.pc = "enter", !.i = o.outerI + 1, !.nested = FALSE,
                      !.outerI = 0, !.handle = Null, !.error = err]
       [] OTHER ->
            [o EXCEPT !.pc = "thrown", !.i = o.outerI + 1, !.nested = FALSE,
                      !.outerI = 0, !.handle = Null, !.error = err]

\* a call withRetry(operation) by caller c: i = 0
Call(c, kind, arg) ==
  /\ ops[c].pc = "idle"
  /\ ops' = [ops EXCEPT ![c] =
       [NoOp EXCEPT !.pc = "enter", !.kind = kind, !.arg = arg,
                    !.existed = kind = "deleteTask" /\ arg \in LocalIds("tasks")]]
  /\ UNCHANGED <<storeVars, serviceVars, exportVars, retry, db, initPromise, inits,
                 nOps, nFaults>>

\* an iteration of the loop of caller c starts, at once or when the delay of
\* the catch block has passed.  await initDatabase(): if (db) return, and
\* operation() starts in the same turn of the event loop with const db =
\* getDb(); if (initPromise) return initPromise; otherwise initPromise =
\* _initDatabase(), a new run, and await initPromise
initDatabase(c) ==
  /\ ops[c].pc = "enter"
  /\ CASE db # Null ->
            /\ ops' = [ops EXCEPT ![c].pc = "op", ![c].handle = db]
            /\ UNCHANGED <<initPromise, inits>>
       [] db = Null /\ initPromise # Null ->
            /\ ops' = [ops EXCEPT ![c].pc = "wait", ![c].awaits = initPromise]
            /\ UNCHANGED <<initPromise, inits>>
       [] OTHER ->
            /\ \E r \in Runs :
                 /\ inits[r] = "none"
                 /\ \A q \in Runs : q < r => inits[q] # "none"
                 /\ inits' = [inits EXCEPT ![r] = "running"]
                 /\ initPromise' = r
                 /\ ops' = [ops EXCEPT ![c].pc = "own", ![c].awaits = r]
  /\ UNCHANGED <<storeVars, serviceVars, exportVars, retry, db, nOps, nFaults>>

\* what the settlement of run r does to caller record o: a caller that awaits
\* the run goes on in the same turn of the event loop, with const db =
\* getDb() of its operation when the run resolved and with the catch block
\* of withRetry() when it rejected
Settled(o, r, ok) ==
  IF o.pc \in {"wait", "own"} /\ o.awaits = r
    THEN IF ok THEN [o EXCEPT !.pc = "op", !.handle = r, !.awaits = 0]
               ELSE catch([o EXCEPT !.awaits = 0], ErrOpen)
    ELSE o

\* the run r of _initDatabase() settles: db = await openDatabaseAsync(...) and
\* the schema statements, or the catch block (db = null; throw error).  The
\* caller that started the run does initPromise = null in its finally block.
_initDatabase(r, ok) ==
  /\ inits[r] = "running"
  /\ inits' = [inits EXCEPT ![r] = IF ok THEN "resolved" ELSE "rejected"]
  /\ db' = IF ok THEN r ELSE Null
  /\ initPromise' = Null
  /\ ops' = [c \in Callers |-> Settled(ops[c], r, ok)]
  /\ UNCHANGED <<storeVars, serviceVars, exportVars, retry, nOps, nFaults>>

\* the operation of caller c, a query or any other operation that does not
\* call withRetry() itself, returns or throws
operation(c, ok) ==
  /\ ops[c].pc = "op"
  /\ ops[c].kind = "query"
  /\ IF ok
       THEN /\ ops' = [ops EXCEPT ![c].pc = "returned"]
            /\ UNCHANGED <<db, initPromise>>
       ELSE /\ ops' = [ops EXCEPT ![c] = catch(@, ErrStore)]
            /\ db' = Null
            /\ initPromise' = Null
  /\ UNCHANGED <<storeVars, serviceVars, exportVars, retry, inits, nOps, nFaults>>

\* the operation of createTask(projectId, title) in caller c, from the INSERT
\* to the call of insertSyncMetadata('tasks', taskId), which starts a
\* withRetry() loop of its own
createTaskInsert(c) ==
  /\ ops[c].pc = "op"
  /\ ops[c].kind = "createTask"
  /\ ~ops[c].nested
  /\ LET taskId == localSeq["tasks"] + 1 IN
       /\ local' = [local EXCEPT !["tasks"] =
                      @ \cup {TaskRow(taskId, ops[c].arg, 1, Null)}]
       /\ localSeq' = [localSeq EXCEPT !["tasks"] = taskId]
       /\ ops' = [ops EXCEPT ![c] =
            [@ EXCEPT !.pc = "enter", !.nested = TRUE, !.outerI = ops[c].i, !.i = 0,
                      !.arg = taskId, !.handle = Null]]
  /\ UNCHANGED <<remote, remoteSeq, origin, meta, clock, serviceVars, exportVars,
                 retry, db, initPromise, inits, nOps, nFaults>>

\* the operation of deleteTask(id) in caller c, from the two DELETE statements
\* to the call of insertSyncMetadata('tasks', id); result.changes === 0
\* throws 'Task not found'
deleteTaskDelete(c) ==
  /\ ops[c].pc = "op"
  /\ ops[c].kind = "deleteTask"
  /\ ~ops[c].nested
  /\ local' = [local EXCEPT
                 !["task_tags"] = {r \in @ : r["task_id"] # ops[c].arg},
                 !["tasks"] = {r \in @ : r["id"] # ops[c].arg}]
  /\ IF ops[c].arg \in LocalIds("tasks")
       THEN /\ ops' = [ops EXCEPT ![c] =
                 [@ EXCEPT !.pc = "enter", !.nested = TRUE, !.outerI = ops[c].i, !.i = 0,
                           !.handle = Null]]
            /\ UNCHANGED <<db, initPromise>>
       ELSE /\ ops' = [ops EXCEPT ![c] = catch(@, ErrNotFound)]
            /\ db' = Null
            /\ initPromise' = Null
  /\ UNCHANGED <<localSeq, remote, remoteSeq, origin, meta, clock, serviceVars,
                 exportVars, retry, inits, nOps, nFaults>>

\* the operation of insertSyncMetadata() called by the mutation of caller c:
\* INSERT OR REPLACE INTO sync_metadata, whose failure is swallowed (metaOk);
\* the mutation returns
insertSyncMetadataRun(c, metaOk) ==
  /\ ops[c].pc = "op"
  /\ ops[c].nested
  /\ MarkPending("tasks", ops[c].arg, metaOk)
  /\ ops' = [ops EXCEPT ![c] = [@ EXCEPT !.pc = "returned", !.nested = FALSE,
                                         !.i = ops[c].outerI, !.outerI = 0]]
  /\ UNCHANGED <<local, localSeq, remote, remoteSeq, origin, serviceVars, exportVars,
                 retry, db, initPromise, inits, nOps, nFaults>>

----------------------------------------------------------------------------
(* Specifications *)

EmptyTables == [t \in TableNames |-> {}]

NoFaults == [select |-> {}, read |-> {}, meta |-> {}]

\* The service right after construction (constructor of SyncService) over a
\* store persisted by an earlier session: project 1 is the Inbox that
\* initDatabase creates (never tracked), project 2 was created and uploaded
\* (the remote SERIAL gave it id 1), project 3 was created afterwards and is
\* still pending.
Init ==
  /\ local = [EmptyTables EXCEPT
                !["projects"] = {ProjectRow(1, 1), ProjectRow(2, 1), ProjectRow(3, 1)}]
  /\ localSeq = [t \in TableNames |-> IF t = "projects" THEN 3 ELSE 0]
  /\ remote = [EmptyTables EXCEPT
                 !["projects"] = {RemoteNewRow("projects", ProjectRow(Absent, 1), 1)}]
  /\ remoteSeq = [t \in TableNames |-> IF t = "projects" THEN 1 ELSE 0]
  /\ origin = {<<"projects", 2, 1>>}
  /\ meta = insertSyncMetadata(
              updateSyncMetadata(insertSyncMetadata({}, 1, "projects", 2, Null),
                                 "projects", 2, "synced", 1),
              2, "projects", 3, Null)
  /\ clock = 2
  /\ syncLog = <<[status |-> "success", records_synced |-> 2]>>
  /\ syncInProgress = FALSE
  /\ isOnline = TRUE
  /\ lastSyncTime = 0
  /\ tables = TABLES
  /\ nCalls = 0
  /\ call = [c \in Calls |-> InitCall]
  /\ syncListeners = <<>>
  /\ notifyThrew = FALSE
  /\ nOps = 0
  /\ nExports = 0
  /\ ex = NoExport
  /\ retry = NoRetry
  /\ StoreClosed
  /\ nFaults = 0

\* the mutations the screens issue through the repositories
Repository ==
  \/ \E name \in NewVals, metaOk \in BOOLEAN : createProject(name, metaOk)
  \/ \E id \in LocalIds("projects"), name \in EditVals, metaOk \in BOOLEAN :
       updateProject(id, name, metaOk)
  \/ \E id \in LocalIds("projects"), metaOk \in BOOLEAN : deleteProject(id, metaOk)
  \/ \E p \in LocalIds("projects"), title \in NewVals, metaOk \in BOOLEAN :
       createTask(p, title, Null, metaOk)
  \/ \E id \in LocalIds("tasks"), metaOk \in BOOLEAN : deleteTask(id, metaOk)

\* the steps of sync() calls made without force (the automatic trigger), every
\* failure of the stores included
SyncStep ==
  \/ nCalls < MaxPasses /\ SyncCall(FALSE)
  \/ \E c \in Calls, outcome \in {"ok", "offline", "unconfigured"} :
       CheckConnection(c, outcome)
  \/ \E c \in Calls, outcome \in {"ok", "empty", "throw"} : UploadFetch(c, outcome)
  \/ \E c \in Calls, readOk, remoteOk, markOk, errMarkOk \in BOOLEAN :
       UploadRecord(c, readOk, remoteOk, markOk, errMarkOk)
  \/ \E c \in Calls : \E f \in DownloadFaults : DownloadPhase(c, f)
  \/ \E c \in Calls, outcome \in {"ok", "skip", "throw"} : LogSuccess(c, outcome)
  \/ \E c \in Calls, outcome \in {"ok", "skip", "throw"} : LogError(c, outcome)

Next == Repository \/ SyncStep

\* repository mutations interleaved with sync passes
Spec == Init /\ [][Next]_vars

\* the steps of racing sync() calls, with and without force (the manual
\* trigger passes force = true); connectivity, remote and store failures
LockStep ==
  \/ \E force \in BOOLEAN : SyncCall(force)
  \/ \E c \in Calls, outcome \in {"ok", "offline", "unconfigured"} :
       CheckConnection(c, outcome)
  \/ \E c \in Calls, outcome \in {"ok", "throw"} : UploadFetch(c, outcome)
  \/ \E c \in Calls, remoteOk \in BOOLEAN : UploadRecord(c, TRUE, remoteOk, TRUE, TRUE)
  \/ \E c \in Calls : DownloadPhase(c, NoFaults)
  \/ \E c \in Calls, outcome \in {"ok", "throw"} : LogSuccess(c, outcome)
  \/ \E c \in Calls, outcome \in {"ok", "throw"} : LogError(c, outcome)

\* concurrent sync() calls on one SyncService
SpecLock == Init /\ [][LockStep]_vars

\* records are created (in the Inbox, project 1) and renamed while passes run;
\* the connectivity check, the metadata query or the remote operation of an
\* upload may fail
CreateStep ==
  \/ \E name \in NewVals : createProject(name, TRUE)
  \/ \E id \in LocalIds("projects") \ {1, 2}, name \in EditVals :
       updateProject(id, name, TRUE)
  \/ \E title \in NewVals : createTask(1, title, Null, TRUE)
  \/ \E id \in LocalIds("tasks") : deleteTask(id, TRUE)
  \/ nCalls < MaxPasses /\ SyncCall(FALSE)
  \/ \E c \in Calls, outcome \in {"ok", "offline"} : CheckConnection(c, outcome)
  \/ \E c \in Calls, outcome \in {"ok", "empty", "throw"} : UploadFetch(c, outcome)
  \/ \E c \in Calls, remoteOk \in BOOLEAN :
       UploadRecord(c, TRUE, remoteOk, TRUE, TRUE)
  \/ \E c \in Calls : DownloadPhase(c, NoFaults)
  \/ \E c \in Calls : LogSuccess(c, "ok")
  \/ \E c \in Calls : LogError(c, "ok")

\* local creation followed by upload
SpecCreate == Init /\ [][CreateStep]_vars

\* the steps of sync() calls made one after another without force over an
\* unchanging local store: every exit path of sync(), remote failures of the
\* upload, failures of the sync_metadata query and of the sync_log write
PassStep ==
  \/ SyncCall(FALSE)
  \/ \E c \in Calls, outcome \in {"ok", "offline", "unconfigured"} :
       CheckConnection(c, outcome)
  \/ \E c \in Calls, outcome \in {"ok", "empty", "throw"} : UploadFetch(c, outcome)
  \/ \E c \in Calls, remoteOk \in BOOLEAN :
       UploadRecord(c, TRUE, remoteOk, TRUE, TRUE)
  \/ \E c \in Calls : DownloadPhase(c, NoFaults)
  \/ \E c \in Calls, outcome \in {"ok", "skip", "throw"} : LogSuccess(c, outcome)
  \/ \E c \in Calls, outcome \in {"ok", "skip", "throw"} : LogError(c, outcome)

\* successive passes and their exit paths
SpecPass == Init /\ [][PassStep]_vars

\* successive passes with projects renamed between and during them
RetryStep ==
  \/ \E id \in LocalIds("projects"), name \in EditVals : updateProject(id, name, TRUE)
  \/ PassStep

\* renames and successive passes
SpecRetry == Init /\ [][RetryStep]_vars

\* repository mutations and passes while the sync_metadata table may be
\* unavailable: the metadata write of a mutation and the metadata query of a
\* pass may fail
BookkeepingStep ==
  \/ \E name \in NewVals, metaOk \in BOOLEAN : createProject(name, metaOk)
  \/ \E id \in LocalIds("projects"), name \in EditVals, metaOk \in BOOLEAN :
       updateProject(id, name, metaOk)
  \/ \E id \in LocalIds("projects"), metaOk \in BOOLEAN : deleteProject(id, metaOk)
  \/ nCalls < MaxPasses /\ SyncCall(FALSE)
  \/ \E c \in Calls : CheckConnection(c, "ok")
  \/ \E c \in Calls, outcome \in {"ok", "empty"} : UploadFetch(c, outcome)
  \/ \E c \in Calls : UploadRecord(c, TRUE, TRUE, TRUE, TRUE)
  \/ \E c \in Calls : DownloadPhase(c, NoFaults)
  \/ \E c \in Calls : LogSuccess(c, "ok")

\* mutations and passes without change tracking
SpecBookkeeping == Init /\ [][BookkeepingStep]_vars

\* the automatic trigger and the manual trigger of a mounted screen, and the
\* steps of the passes they start; the connectivity check may fail
AutoStep ==
  \/ useSync
  \/ useAutoSync
  \/ handleSync
  \/ \E c \in Calls, outcome \in {"ok", "offline"} : CheckConnection(c, outcome)
  \/ \E c \in Calls : UploadFetch(c, "ok")
  \/ \E c \in Calls : UploadRecord(c, TRUE, TRUE, TRUE, TRUE)
  \/ \E c \in Calls : DownloadPhase(c, NoFaults)
  \/ \E c \in Calls : LogSuccess(c, "ok")
  \/ \E c \in Calls : LogError(c, "ok")

\* timer ticks, manual sync(true) calls and pass completions
SpecAuto == Init /\ [][AutoStep]_vars

\* the broadcast bus on its own: callbacks, some of which throw, subscribe and
\* unsubscribe in any order between notifyListeners() calls
PublishStep ==
  \/ \E id \in 1..MaxListeners, throws \in BOOLEAN : addSyncListener(id, throws)
  \/ \E id \in 1..MaxListeners : unsubscribe(id)
  \/ \E status \in {"syncing", "success"} : Publish(status)

\* subscriptions and broadcasts
SpecPublish == Init /\ [][PublishStep]_vars

\* another device renames the remote project row sid (an UPDATE of the shared
\* remote table); time passes, so the change is later than every local change
\* made so far
otherDeviceUpdate(sid, name) ==
  /\ sid \in RemoteIds("projects")
  /\ remote' = [remote EXCEPT !["projects"] =
                  RemoteUpdate(@, sid, ProjectRow(Absent, name))]
  /\ clock' = clock + 1
  /\ UNCHANGED <<local, localSeq, remoteSeq, origin, meta, serviceVars, nOps,
                 exportVars, retry, moduleVars, nFaults>>

\* the remote ids of the rows uploaded from the local record id of table t
RemoteIdsOf(t, id) == {o[3] : o \in {x \in origin : x[1] = t /\ x[2] = id}}

\* the local records of table t that were changed locally and whose remote row
\* was changed by another device afterwards
InConflict(t) ==
  {id \in LocalIds(t) :
     /\ \E m \in meta : m.table_name = t /\ m.record_id = id /\ m.sync_status = "pending"
     /\ \E r \in remote[t] : r["id"] \in RemoteIdsOf(t, id) /\ r["name"] \in RemoteVals}

\* a project that was uploaded is renamed locally, then another device renames
\* its remote row, then passes run; projects may be created meanwhile and the
\* connectivity check or a remote operation may fail
ConflictStep ==
  \/ \E name \in NewVals : createProject(name, TRUE)
  \/ \E id \in LocalIds("projects"), name \in EditVals :
       /\ RemoteIdsOf("projects", id) # {}
       /\ InConflict("projects") = {}
       /\ nCalls = 0
       /\ updateProject(id, name, TRUE)
  \/ \E id \in LocalIds("projects"), name \in RemoteVals :
       /\ \E m \in meta : /\ m.table_name = "projects" /\ m.record_id = id
                          /\ m.sync_status = "pending"
       /\ InConflict("projects") = {}
       /\ nCalls = 0
       /\ \E sid \in RemoteIdsOf("projects", id) : otherDeviceUpdate(sid, name)
  \/ InConflict("projects") # {} /\ nCalls < MaxPasses /\ SyncCall(FALSE)
  \/ \E c \in Calls, outcome \in {"ok", "offline"} : CheckConnection(c, outcome)
  \/ \E c \in Calls : UploadFetch(c, "ok")
  \/ \E c \in Calls, remoteOk \in BOOLEAN : UploadRecord(c, TRUE, remoteOk, TRUE, TRUE)
  \/ \E c \in Calls : DownloadPhase(c, NoFaults)
  \/ \E c \in Calls : LogSuccess(c, "ok")
  \/ \E c \in Calls : LogError(c, "ok")

\* a record changed on both sides between two passes
SpecConflict == Init /\ [][ConflictStep]_vars

\* the inputs of the upload loop: the metadata rows of projects 2 and 3, with
\* any status and a remote id that is null, that of the remote row, or that of
\* no remote row
MetaInputs(id, lastModified) ==
  {[table_name |-> "projects", record_id |-> id, sync_status |-> st,
    supabase_id |-> sid, last_modified |-> lastModified] :
     st \in {"pending", "error", "synced"}, sid \in {Null, 1, 2}}

\* a pass that has passed its connectivity check, over local projects 2 and 3
\* (3 may have been deleted), one remote project row and metadata rows drawn
\* from the inputs above
UploadInit ==
  /\ \E n2 \in NewVals \cup EditVals, n3 \in NewVals \cup EditVals, has3 \in BOOLEAN :
       local = [EmptyTables EXCEPT
                  !["projects"] = {ProjectRow(1, 1), ProjectRow(2, n2)}
                                    \cup (IF has3 THEN {ProjectRow(3, n3)} ELSE {})]
  /\ localSeq = [t \in TableNames |-> IF t = "projects" THEN 3 ELSE 0]
  /\ remote = [EmptyTables EXCEPT
                 !["projects"] = {RemoteNewRow("projects", ProjectRow(Absent, 1), 1)}]
  /\ remoteSeq = [t \in TableNames |-> IF t = "projects" THEN 1 ELSE 0]
  /\ origin = {<<"projects", 2, 1>>}
  /\ \E m2 \in MetaInputs(2, 1), m3 \in MetaInputs(3, 2) : meta = {m2, m3}
  /\ clock = 2
  /\ syncLog = <<>>
  /\ syncInProgress = TRUE
  /\ isOnline = TRUE
  /\ lastSyncTime = 0
  /\ tables = TABLES
  /\ nCalls = 1
  /\ call = [c \in Calls |->
               IF c = 1
                 THEN [InitCall EXCEPT !.pc = "pending", !.syncStartTime = 2,
                                       !.events = <<"syncing", "syncing">>]
                 ELSE InitCall]
  /\ syncListeners = <<>>
  /\ notifyThrew = FALSE
  /\ nOps = 0
  /\ nExports = 0
  /\ ex = NoExport
  /\ retry = NoRetry
  /\ StoreClosed
  /\ nFaults = 0

\* the metadata query and the upload loop; a remote operation may fail
UploadStep ==
  \/ \E c \in Calls : UploadFetch(c, "ok")
  \/ \E c \in Calls, remoteOk \in BOOLEAN : UploadRecord(c, TRUE, remoteOk, TRUE, TRUE)

\* the upload phase applied to its inputs
SpecUpload == UploadInit /\ [][UploadStep]_vars

\* the inputs of the download merge: a remote row of table t (a column of the
\* remote schema may be missing or hold NULL) ...
RemoteInputs(t) ==
  IF t = "projects"
    THEN {MkRow([id |-> i, name |-> n, created_at |-> ca]) :
            i \in 1..MaxMergeId, n \in {Absent, 1, 2}, ca \in {Absent, 1}}
    ELSE {MkRow([id |-> i, project_id |-> 1, title |-> ti, description |-> d,
                 created_at |-> ca]) :
            i \in 1..MaxMergeId, ti \in {1, 2}, d \in {Absent, Null, 1},
            ca \in {Absent, 1}}

\* ... and the rows of the local table t, with distinct ids
LocalInputs(t) ==
  LET rowsOf(i) == IF t = "projects" THEN {ProjectRow(i, n) : n \in {1, 2}}
                   ELSE {TaskRow(i, 1, ti, d) : ti \in {1, 2}, d \in {Null, 1}}
  IN {S \in SUBSET UNION {rowsOf(i) : i \in 1..MaxMergeId} :
        \A x, y \in S : x["id"] = y["id"] => x = y}

\* a pass that has reached its download phase with nothing to upload, over a
\* local table and a remote row drawn from the inputs above; with tasks, the
\* parent project 1 exists in both stores
MergeInit ==
  /\ \E t \in {"projects", "tasks"} :
       \E rec \in RemoteInputs(t), rows \in LocalInputs(t) :
         /\ local = [EmptyTables EXCEPT
                       !["projects"] = IF t = "tasks" THEN {ProjectRow(1, 1)} ELSE {},
                       ![t] = IF t = "tasks" THEN rows ELSE @ \cup rows]
         /\ remote = [EmptyTables EXCEPT
                        !["projects"] =
                          IF t = "tasks"
                            THEN {RemoteNewRow("projects", ProjectRow(1, 2), 1)} ELSE {},
                        ![t] = IF t = "tasks" THEN {rec} ELSE @ \cup {rec}]
  /\ localSeq = [t \in TableNames |-> MaxMergeId]
  /\ remoteSeq = [t \in TableNames |-> MaxMergeId]
  /\ origin = {}
  /\ meta = {}
  /\ clock = 0
  /\ syncLog = <<>>
  /\ syncInProgress = TRUE
  /\ isOnline = TRUE
  /\ lastSyncTime = 0
  /\ tables = TABLES
  /\ nCalls = 1
  /\ call = [c \in Calls |->
               IF c = 1
                 THEN [InitCall EXCEPT !.pc = "download",
                                       !.events = <<"syncing", "syncing", "syncing">>]
                 ELSE InitCall]
  /\ syncListeners = <<>>
  /\ notifyThrew = FALSE
  /\ nOps = 0
  /\ nExports = 0
  /\ ex = NoExport
  /\ retry = NoRetry
  /\ StoreClosed
  /\ nFaults = 0

MergeStep == \E c \in Calls : DownloadPhase(c, NoFaults)

\* the download merge applied to its inputs
SpecMerge == MergeInit /\ [][MergeStep]_vars

\* creation and deletion of tasks and passes in which nothing fails, with
\* resets of the sync bookkeeping
ResetStep ==
  \/ \E title \in NewVals : createTask(1, title, Null, TRUE)
  \/ \E id \in LocalIds("tasks") : deleteTask(id, TRUE)
  \/ nCalls < MaxPasses /\ SyncCall(FALSE)
  \/ \E c \in Calls : CheckConnection(c, "ok")
  \/ \E c \in Calls : UploadFetch(c, "ok")
  \/ \E c \in Calls : UploadRecord(c, TRUE, TRUE, TRUE, TRUE)
  \/ \E c \in Calls : DownloadPhase(c, NoFaults)
  \/ \E c \in Calls : LogSuccess(c, "ok")
  \/ \E outcome \in {"ok", "fail_first", "fail_second"} : clearSyncMetadata(outcome)

\* the life of the sync bookkeeping: mutations, passes and resets
SpecReset == Init /\ [][ResetStep]_vars

\* calls of withRetry, every iteration with every outcome
RetryLoopStep ==
  \/ withRetryCall
  \/ \E initOk \in BOOLEAN, outcome \in OperationValues \cup OperationErrors :
       withRetryStep(initOk, outcome)

\* withRetry applied to every sequence of outcomes
SpecWithRetry == Init /\ [][RetryLoopStep]_vars

\* a backlog: project 2 was uploaded as remote row 1, so the remote store has
\* no project with id 2; BATCH_SIZE tasks of project 2 were created first and
\* project 3 after them, none of them uploaded yet
BacklogInit ==
  /\ \E n \in NewVals \cup EditVals, d \in {Null, 1} :
       \E titles \in [1..BATCH_SIZE -> NewVals \cup EditVals] :
         local = [EmptyTables EXCEPT
                    !["projects"] = {ProjectRow(1, 1), ProjectRow(2, 1), ProjectRow(3, n)},
                    !["tasks"] = {TaskRow(i, 2, titles[i], d) : i \in 1..BATCH_SIZE}]
  /\ localSeq = [t \in TableNames |->
                   IF t = "projects" THEN 3 ELSE IF t = "tasks" THEN BATCH_SIZE ELSE 0]
  /\ remote = [EmptyTables EXCEPT
                 !["projects"] = {RemoteNewRow("projects", ProjectRow(Absent, 1), 1)}]
  /\ remoteSeq = [t \in TableNames |-> IF t = "projects" THEN 1 ELSE 0]
  /\ origin = {<<"projects", 2, 1>>}
  /\ meta = {[table_name |-> "projects", record_id |-> 2, sync_status |-> "synced",
              supabase_id |-> 1, last_modified |-> 1]}
            \cup {[table_name |-> "tasks", record_id |-> i, sync_status |-> "pending",
                   supabase_id |-> Null, last_modified |-> 1 + i] : i \in 1..BATCH_SIZE}
            \cup {[table_name |-> "projects", record_id |-> 3, sync_status |-> "pending",
                   supabase_id |-> Null, last_modified |-> 2 + BATCH_SIZE]}
  /\ clock = 2 + BATCH_SIZE
  /\ syncLog = <<>>
  /\ syncInProgress = FALSE
  /\ isOnline = TRUE
  /\ lastSyncTime = 0
  /\ tables = TABLES
  /\ nCalls = 0
  /\ call = [c \in Calls |-> InitCall]
  /\ syncListeners = <<>>
  /\ notifyThrew = FALSE
  /\ nOps = 0
  /\ nExports = 0
  /\ ex = NoExport
  /\ retry = NoRetry
  /\ StoreClosed
  /\ nFaults = 0

\* the steps of a pass other than its download phase, with the remote
\* reachable and no failure other than what the remote schema rejects
BacklogControl ==
  \/ ~syncInProgress /\ SyncCall(FALSE)
  \/ \E c \in Calls : CheckConnection(c, "ok")
  \/ \E c \in Calls : UploadFetch(c, "ok")
  \/ \E c \in Calls : UploadRecord(c, TRUE, TRUE, TRUE, TRUE)
  \/ \E c \in Calls : LogSuccess(c, "ok")

\* passes one after the other
BacklogStep ==
  \/ BacklogControl
  \/ \E c \in Calls : DownloadPhase(c, NoFaults)

\* no pass is in its download phase: the awaited downloadChanges() returned
DownloadReturns == \A c \in Calls : call[c].pc # "download"

\* repeated passes over the backlog: a pass that can take a step takes it,
\* the periodic trigger starts the next pass, and a download phase returns
SpecBacklog ==
  BacklogInit /\ [][BacklogStep]_vars /\ WF_vars(BacklogControl) /\ []<>DownloadReturns

\* the tasks of the local store when the concurrent callers start
TasksAtStart == {TaskRow(1, 1, 1, Null)}

\* a store with the Inbox project and one task, nothing opened yet
MutationInit ==
  /\ local = [EmptyTables EXCEPT !["projects"] = {ProjectRow(1, 1)},
                                 !["tasks"] = TasksAtStart]
  /\ localSeq = [t \in TableNames |-> IF t \in {"projects", "tasks"} THEN 1 ELSE 0]
  /\ remote = EmptyTables
  /\ remoteSeq = [t \in TableNames |-> 0]
  /\ origin = {}
  /\ meta = {}
  /\ clock = 0
  /\ syncLog = <<>>
  /\ syncInProgress = FALSE
  /\ isOnline = TRUE
  /\ lastSyncTime = 0
  /\ tables = TABLES
  /\ nCalls = 0
  /\ call = [c \in Calls |-> InitCall]
  /\ syncListeners = <<>>
  /\ notifyThrew = FALSE
  /\ nOps = 0
  /\ nExports = 0
  /\ ex = NoExport
  /\ retry = NoRetry
  /\ StoreClosed
  /\ nFaults = 0

\* the steps of _initDatabase() runs and of callers up to their operation
HandleStep ==
  \/ \E c \in Callers : initDatabase(c)
  \/ \E r \in Runs, ok \in BOOLEAN : _initDatabase(r, ok)

\* caller 1 creates or deletes a task while caller 2 runs an operation that
\* may fail
MutationStep ==
  \/ Call(1, "createTask", 1)
  \/ Call(1, "deleteTask", 1)
  \/ Call(2, "query", 0)
  \/ HandleStep
  \/ \E ok \in BOOLEAN : operation(2, ok)
  \/ createTaskInsert(1)
  \/ deleteTaskDelete(1)
  \/ \E metaOk \in BOOLEAN : insertSyncMetadataRun(1, metaOk)

\* concurrent withRetry() calls whose operations may fail
ConcurrentStep ==
  \/ \E c \in Callers : Call(c, "query", 0)
  \/ HandleStep
  \/ \E c \in Callers, ok \in BOOLEAN : operation(c, ok)

\* callers of the local store that open it, use it and fail
SpecConcurrent == MutationInit /\ [][ConcurrentStep]_vars

\* a task mutation next to another caller of the local store
SpecMutation == MutationInit /\ [][MutationStep]_vars

\* the task_tags rows a store with tasks 1..3 and tags 1..2 may hold
TaskTagRows == {MkRow([task_id |-> t, tag_id |-> g]) : t \in 1..3, g \in 1..2}

\* a store with two projects, three tasks (tasks 1 and 2 in project 2), two
\* tags and any set of task_tags rows
CascadeInit ==
  /\ \E tt \in SUBSET TaskTagRows :
       local = [EmptyTables EXCEPT
                  !["projects"] = {ProjectRow(1, 1), ProjectRow(2, 1)},
                  !["tasks"] = {TaskRow(1, 2, 1, Null), TaskRow(2, 2, 1, Null),
                                TaskRow(3, 1, 1, Null)},
                  !["tags"] = {MkRow([id |-> 1, name |-> 1]), MkRow([id |-> 2, name |-> 2])},
                  !["task_tags"] = tt]
  /\ localSeq = [t \in TableNames |->
                   CASE t = "projects" -> 2 [] t = "tasks" -> 3 [] t = "tags" -> 2
                     [] OTHER -> 0]
  /\ remote = EmptyTables
  /\ remoteSeq = [t \in TableNames |-> 0]
  /\ origin = {}
  /\ meta = {}
  /\ clock = 0
  /\ syncLog = <<>>
  /\ syncInProgress = FALSE
  /\ isOnline = TRUE
  /\ lastSyncTime = 0
  /\ tables = TABLES
  /\ nCalls = 0
  /\ call = [c \in Calls |-> InitCall]
  /\ syncListeners = <<>>
  /\ notifyThrew = FALSE
  /\ nOps = 0
  /\ nExports = 0
  /\ ex = NoExport
  /\ retry = NoRetry
  /\ StoreClosed
  /\ nFaults = 0

\* deletions of projects, tasks and tags
CascadeStep ==
  \/ \E id \in LocalIds("projects") : deleteProject(id, TRUE)
  \/ \E id \in LocalIds("tasks") : deleteTask(id, TRUE)
  \/ \E id \in LocalIds("tags") : deleteTag(id, TRUE)

\* deletions in a store with tagged tasks
SpecCascade == CascadeInit /\ [][CascadeStep]_vars

\* the sync_metadata tables the pending query is applied to: at most one row
\* for each of the projects 1..MaxRows, with any status and a modification
\* time that other rows may share
PendingInputs ==
  LET rowOf(i, x) == [table_name |-> "projects", record_id |-> i, sync_status |-> x[1],
                      supabase_id |-> Null, last_modified |-> x[2]]
  IN {{rowOf(i, f[i]) : i \in {j \in 1..MaxRows : f[j][1] # "none"}} :
        f \in [1..MaxRows -> {"none", "pending", "error", "synced"} \X (1..2)]}

\* a pass that has passed its connectivity check, over metadata drawn from
\* the inputs above
PendingInit ==
  /\ meta \in PendingInputs
  /\ local = [EmptyTables EXCEPT !["projects"] = {ProjectRow(i, 1) : i \in 1..MaxRows}]
  /\ localSeq = [t \in TableNames |-> IF t = "projects" THEN MaxRows ELSE 0]
  /\ remote = EmptyTables
  /\ remoteSeq = [t \in TableNames |-> 0]
  /\ origin = {}
  /\ clock = 2
  /\ syncLog = <<>>
  /\ syncInProgress = TRUE
  /\ isOnline = TRUE
  /\ lastSyncTime = 0
  /\ tables = TABLES
  /\ nCalls = 1
  /\ call = [c \in Calls |->
               IF c = 1
                 THEN [InitCall EXCEPT !.pc = "pending", !.syncStartTime = 2,
                                       !.events = <<"syncing", "syncing">>]
                 ELSE InitCall]
  /\ syncListeners = <<>>
  /\ notifyThrew = FALSE
  /\ nOps = 0
  /\ nExports = 0
  /\ ex = NoExport
  /\ retry = NoRetry
  /\ StoreClosed
  /\ nFaults = 0

\* the metadata query of the upload phase
PendingStep == \E c \in Calls : UploadFetch(c, "ok")

\* the pending query applied to its inputs
SpecPending == PendingInit /\ [][PendingStep]_vars

\* a pass that has reached its download phase with nothing to upload: the
\* remote store holds two projects and a task of project 1, the local store
\* holds projects drawn from the merge inputs, possibly the task, and
\* possibly a metadata row of project 1
DownloadInit ==
  /\ \E rows \in LocalInputs("projects"),
        tasks \in SUBSET {TaskRow(1, 1, 1, Null)},
        tracked \in BOOLEAN :
       /\ local = [EmptyTables EXCEPT !["projects"] = rows, !["tasks"] = tasks]
       /\ meta = IF tracked THEN insertSyncMetadata({}, 0, "projects", 1, Null) ELSE {}
  /\ remote = [EmptyTables EXCEPT
                 !["projects"] = {MkRow([id |-> 1, name |-> 3, created_at |-> 1]),
                                  MkRow([id |-> 2, name |-> 3, created_at |-> 1])},
                 !["tasks"] = {MkRow([id |-> 1, project_id |-> 1, title |-> 3,
                                      description |-> Null, created_at |-> 1])}]
  /\ localSeq = [t \in TableNames |-> MaxMergeId]
  /\ remoteSeq = [t \in TableNames |-> MaxMergeId]
  /\ origin = {}
  /\ clock = 1
  /\ syncLog = <<>>
  /\ syncInProgress = TRUE
  /\ isOnline = TRUE
  /\ lastSyncTime = 0
  /\ tables = TABLES
  /\ nCalls = 1
  /\ call = [c \in Calls |->
               IF c = 1
                 THEN [InitCall EXCEPT !.pc = "download",
                                       !.events = <<"syncing", "syncing", "syncing">>]
                 ELSE InitCall]
  /\ syncListeners = <<>>
  /\ notifyThrew = FALSE
  /\ nOps = 0
  /\ nExports = 0
  /\ ex = NoExport
  /\ retry = NoRetry
  /\ StoreClosed
  /\ nFaults = 0

\* the download phase; a select, a local statement or a metadata write may
\* fail
DownloadStep == \E c \in Calls : \E f \in DownloadFaults : DownloadPhase(c, f)

\* the download phase applied to its inputs, with failures
SpecDownload == DownloadInit /\ [][DownloadStep]_vars

\* the steps of exportAllDataToSupabase() calls, one at a time
ExportStep ==
  \/ \E clearSupabaseFirst, skipExisting \in BOOLEAN :
       ExportCall(clearSupabaseFirst, skipExisting)
  \/ \E outcome \in {"ok", "offline", "unconfigured"} : ExportCheck(outcome)
  \/ \E ok \in BOOLEAN : ExportClear(ok)
  \/ \E readOk \in BOOLEAN :
       \E failInsert \in SubsetsUpTo(local[tables[Max(ex.k, 1)]], MaxFaults - nFaults) :
         ExportTable(readOk, failInsert)

\* bulk exports alone, over the store of Init
SpecExportOnly == Init /\ [][ExportStep]_vars

NextExport == (ex.pc \in {"idle", "done"} /\ Repository) \/ ExportStep

\* bulk exports, with repository mutations between them
SpecExport == Init /\ [][NextExport]_vars

----------------------------------------------------------------------------
(* Properties: the lock of sync() *)

\* the call is executing a pass
Running(c) == call[c].pc \notin {"idle", "done"}

\* the step is the entry of call c into sync(force)
Enters(c, force) == nCalls = c - 1 /\ nCalls' = c /\ call'[c].force = force

\* C1: for every interleaving of sync(force) calls, forced or not, at most one
\* sync pass is executing at any time.
C1_AtMostOnePass == Cardinality({c \in Calls : Running(c)}) <= 1

\* C2: a sync(force = false) call made while another pass is in flight is
\* rejected and touches nothing: no store or metadata change, no sync_log
\* entry, no status broadcast, and the lock stays held.
C2_RejectedWhileInFlight ==
  [][\A c \in Calls :
       (Enters(c, FALSE) /\ \E d \in Calls : Running(d))
         => /\ call'[c].result = "rejected"
            /\ call'[c].events = <<>>
            /\ syncInProgress'
            /\ UNCHANGED <<storeVars, syncLog, syncInProgress, isOnline, lastSyncTime>>
            /\ \A d \in Calls \ {c} : call'[d] = call[d]]_vars

\* C3: sync() never throws to its caller: every call that has returned
\* resolved to a result object (success, failure or rejection).
C3_SyncNeverThrows ==
  \A c \in Calls :
    call[c].pc = "done" => call[c].result \in {"success", "error", "rejected"}

----------------------------------------------------------------------------
(* Properties: change tracking and the upload phase *)

\* the step is a repository mutation
Mutates == nOps' = nOps + 1

\* C4: a repository mutation (markPending without a remote id) leaves the
\* remote id of every metadata row that has one unchanged.
C4_RemoteIdPreserved ==
  [][Mutates =>
       \A m \in meta :
         m.supabase_id # Null =>
           \E n \in meta' : /\ n.table_name = m.table_name
                            /\ n.record_id = m.record_id
                            /\ n.supabase_id = m.supabase_id]_vars

\* the step is the iteration of the upload loop of call c that resolves the
\* fetched change as uploaded
Uploads(c) ==
  /\ call[c].pc = "upload"
  /\ call'[c].uploadedCount = call[c].uploadedCount + 1

\* the change the upload loop of call c is at
CurrentChange(c) == call[c].changes[call[c].i + 1]

\* the call returned success and no pass so far met a per-record failure
CleanSuccess(c) ==
  /\ call[c].pc = "done"
  /\ call[c].result = "success"
  /\ \A d \in Calls : call[d].upErrorCount = 0 /\ call[d].downErrorCount = 0

\* the metadata rows of the record of a fetched change that were not re-marked
\* since the fetch and whose local record exists
FetchedAndKept(ch) ==
  {m \in meta : /\ m.table_name = ch.table_name
                /\ m.record_id = ch.record_id
                /\ m.last_modified = ch.last_modified
                /\ ById(local[ch.table_name], ch.record_id) # {}}

\* C5 (as stated): after a successful pass without per-record failure, every
\* locally created record that was marked before the pass started (and still
\* exists) is synced and has a remote id.
C5_EveryCreatedRecordSynced ==
  \A c \in Calls :
    CleanSuccess(c) =>
      \A m \in meta :
        (m.last_modified <= call[c].syncStartTime
           /\ ById(local[m.table_name], m.record_id) # {})
          => m.sync_status = "synced" /\ m.supabase_id # Null

\* C5 (amended): after a successful pass without per-record failure, every
\* record among the rows the upload phase of the pass fetched, that still
\* exists locally and was not re-marked since, is synced and has a remote id.
C5_FetchedRecordSynced ==
  \A c \in Calls :
    CleanSuccess(c) =>
      \A k \in 1..Len(call[c].changes) :
        \A m \in FetchedAndKept(call[c].changes[k]) :
          m.sync_status = "synced" /\ m.supabase_id # Null

\* a pass returned success without failure after fetching a task created by
\* createTask, and the task is synced with a remote id
C5_Witness ==
  \E c \in Calls :
    /\ CleanSuccess(c)
    /\ \E k \in 1..Len(call[c].changes) :
         /\ call[c].changes[k].table_name = "tasks"
         /\ \E m \in FetchedAndKept(call[c].changes[k]) :
              m.sync_status = "synced" /\ m.supabase_id # Null

\* C6: when the upload phase resolves a change whose local record no longer
\* exists (a tombstone), no remote row created from that record is left and
\* the metadata row is synced.
C6_TombstoneDeletesRemote ==
  [][\A c \in Calls :
       (Uploads(c) /\ ById(local[CurrentChange(c).table_name],
                           CurrentChange(c).record_id) = {})
         => /\ \A o \in origin :
                 (o[1] = CurrentChange(c).table_name /\ o[2] = CurrentChange(c).record_id)
                   => o[3] \notin {r["id"] : r \in remote'[o[1]]}
            /\ \A m \in meta' :
                 (m.table_name = CurrentChange(c).table_name
                    /\ m.record_id = CurrentChange(c).record_id)
                   => m.sync_status = "synced"]_vars

\* C7: a record's failure never aborts the batch: once a call has left the
\* upload phase, every row of the batch it fetched has been attempted.
C7_FailureNeverAbortsBatch ==
  \A c \in Calls :
    call[c].pc \in {"download", "log", "catch", "done"}
      => call[c].i = Len(call[c].changes)

\* C10: when the connectivity check of a pass fails, nothing was uploaded or
\* downloaded, no business or metadata row changes on the failure path, and
\* the call resolves to a failure result.
C10_ConnectivityFailFast ==
  [][\A c \in Calls :
       /\ (call[c].pc = "check" /\ call'[c].pc = "catch")
            => UNCHANGED <<local, remote, meta>>
       /\ (call[c].pc = "catch" /\ call'[c].pc = "done"
             /\ call[c].error \in {ErrNoConnection, ErrNotConfigured})
            => /\ UNCHANGED <<local, remote, meta>>
               /\ call'[c].changes = <<>>
               /\ call'[c].uploadedCount + call'[c].downloadedCount = 0
               /\ call'[c].result = "error"]_vars

----------------------------------------------------------------------------
(* Properties: download merge *)

\* a remote row as the local schema sees it
LocalView(t, r) ==
  [c \in Columns |-> IF c \in getLocalTableColumns(t) THEN r[c] ELSE Absent]

\* the step is a download phase in which every remote row was processed
\* without error
MergesAll ==
  \E c \in Calls : /\ call[c].pc = "download"
                   /\ call'[c].pc = "log"
                   /\ call'[c].downErrorCount = 0

\* the local row r after the columns of rec that the local schema of t has,
\* other than the id, were written into it
Merged(t, r, rec) ==
  [c \in Columns |->
     IF c # "id" /\ rec[c] # Absent /\ c \in getLocalTableColumns(t)
       THEN rec[c] ELSE r[c]]

\* the local row made of the columns of rec that the local schema of t has
Inserted(t, rec) ==
  [c \in Columns |->
     IF rec[c] # Absent /\ c \in getLocalTableColumns(t) THEN rec[c]
     ELSE IF c \in getLocalTableColumns(t) THEN Null ELSE Absent]

\* C8: download merge.  A remote row whose id is the id of a local row
\* overwrites exactly the columns present in both the remote row and the local
\* schema, the id and every other column staying as they were; a remote row
\* whose id no local row has is inserted with that id and its schema-filtered
\* fields.
C8_DownloadMerge ==
  [][MergesAll =>
       \A t \in TableNames :
         \A rec \in remote[t] :
           ById(local'[t], rec["id"]) =
             IF ById(local[t], rec["id"]) # {}
               THEN {Merged(t, r, rec) : r \in ById(local[t], rec["id"])}
               ELSE {Inserted(t, rec)}]_vars

\* a download phase has merged two remote rows without error, and a local
\* task equals a remote row stripped of the created_at column the local
\* schema lacks
C8_Witness ==
  \E c \in Calls :
    /\ call[c].pc = "log"
    /\ call[c].downloadedCount = 2
    /\ call[c].downErrorCount = 0
    /\ \E r \in remote["tasks"] :
         r["created_at"] # Absent /\ LocalView("tasks", r) \in local["tasks"]

----------------------------------------------------------------------------
(* Properties: bulk export *)

\* the step completes an export that cleared the remote first and reports no
\* error
CompletesCleanClearExport ==
  /\ ex.pc # "done" /\ ex'.pc = "done"
  /\ ex'.clearSupabaseFirst
  /\ ex'.result = "success"
  /\ ex'.totalErrors = 0

\* C9: when an export with clearSupabaseFirst completes without error, every
\* tracked remote table holds exactly the local rows, with the same ids.
C9_ExportMirrorsLocal ==
  [][CompletesCleanClearExport =>
       \A t \in TableNames : {LocalView(t, r) : r \in remote'[t]} = local'[t]]_vars

----------------------------------------------------------------------------
(* Properties: the sync log *)

\* the step ends the pass of call c: its try block or its catch block finishes
EndsPass(c) == call[c].pc \in {"log", "catch"} /\ call'[c].pc = "done"

\* the entry a pass that ends from the try block (pc "log") or from the catch
\* block (pc "catch") is to write
EntryStatus(c) == IF call[c].pc = "log" THEN "success" ELSE "error"

\* C11 (as stated): each pass that starts appends exactly one sync_log entry
\* when it ends, success when it ends from the try block and error when it
\* ends from the catch block, and no other step writes to the log.
C11_ExactlyOneLogEntry ==
  [][/\ \A c \in Calls :
          EndsPass(c) =>
            /\ Len(syncLog') = Len(syncLog) + 1
            /\ syncLog'[Len(syncLog')].status = EntryStatus(c)
     /\ (\A c \in Calls : ~EndsPass(c)) => syncLog' = syncLog]_vars

\* C11 (amended): a pass appends at most one sync_log entry, in the step that
\* ends it, and exactly one when no failure of the local store occurs in that
\* step; the entry and the returned result are success when the pass ends from
\* the try block, whatever the per-record error counts, and error when it ends
\* from the catch block; no other step writes to the log.
C11_AtMostOneLogEntry ==
  [][/\ \A c \in Calls :
          EndsPass(c) =>
            /\ \/ syncLog' = syncLog
               \/ /\ Len(syncLog') = Len(syncLog) + 1
                  /\ SubSeq(syncLog', 1, Len(syncLog)) = syncLog
                  /\ syncLog'[Len(syncLog')].status = EntryStatus(c)
                  /\ call'[c].result = EntryStatus(c)
            /\ nFaults' = nFaults => Len(syncLog') = Len(syncLog) + 1
     /\ (\A c \in Calls : ~EndsPass(c)) => syncLog' = syncLog]_vars

\* a pass met a per-record error in its upload phase, ended from the try block
\* and wrote a success entry
C11_Witness ==
  \E c \in Calls :
    /\ call[c].pc = "done"
    /\ call[c].upErrorCount > 0
    /\ call[c].result = "success"
    /\ Len(syncLog) = 2
    /\ syncLog[2].status = "success"

----------------------------------------------------------------------------
(* Properties: retry of failed uploads *)

\* the metadata rows, after the step, of the record of the k-th change fetched
\* by call c that were not re-marked since the fetch
RowsOfChange(c, k) ==
  {m \in meta' : /\ m.table_name = call[c].changes[k].table_name
                 /\ m.record_id = call[c].changes[k].record_id
                 /\ m.last_modified = call[c].changes[k].last_modified}

\* C12: a record whose upload failed during a pass (and that was not re-marked
\* by a repository since) has metadata status error when the pass ends, so
\* that the next pass fetches it again.
C12_FailedUploadStaysError ==
  [][\A c \in Calls :
       EndsPass(c) =>
         \A k \in call[c].failed :
           \A m \in RowsOfChange(c, k) : m.sync_status = "error"]_vars

----------------------------------------------------------------------------
(* Properties: change tracking by the repositories *)

\* the ids of the rows of table t that the step inserts, changes or removes
ChangedIds(t) ==
  {id \in IdsOf(local[t]) \cup IdsOf(local'[t]) : ById(local[t], id) # ById(local'[t], id)}

\* C13: a repository mutation during which sync_metadata is available leaves,
\* for every row of a tracked table it inserts, changes or removes (rows
\* removed by a cascade included), a pending metadata row written by that
\* mutation.
C13_EveryMutationMarked ==
  [][(Mutates /\ nFaults' = nFaults) =>
       \A t \in TableNames :
         \A id \in ChangedIds(t) :
           \E m \in meta' : /\ m.table_name = t
                            /\ m.record_id = id
                            /\ m.sync_status = "pending"
                            /\ m.last_modified = clock']_vars

\* C14: when sync_metadata is unavailable, a repository mutation leaves the
\* metadata as it is and still applies its local write (a rename to the name
\* already stored writes the same row), and the metadata query of a pass
\* yields the empty list: the pass goes on to its download phase with nothing
\* to upload and no error.
C14_BookkeepingNeverBlocks ==
  [][/\ (Mutates /\ nFaults' = nFaults + 1) =>
          /\ meta' = meta
          /\ \/ local' # local
             \/ \E r \in local["projects"] : r["name"] \in EditVals
     /\ \A c \in Calls :
          (call[c].pc = "pending" /\ call'[c].pc \notin {"pending", "catch"}
             /\ nFaults' = nFaults + 1) =>
            /\ call'[c].pc = "download"
            /\ call'[c].changes = <<>>
            /\ call'[c].error = ErrNone]_vars

\* a project was created while sync_metadata was unavailable (the row exists,
\* no metadata row tracks it), and a pass whose metadata query failed while
\* rows were pending has returned success having uploaded nothing
C14_Witness ==
  /\ \E r \in local["projects"] :
       /\ r["id"] > 3
       /\ \A m \in meta : ~(m.table_name = "projects" /\ m.record_id = r["id"])
  /\ \E m \in meta : m.sync_status = "pending"
  /\ \E c \in Calls :
       /\ call[c].pc = "done"
       /\ call[c].result = "success"
       /\ call[c].changes = <<>>
       /\ call[c].uploadedCount = 0

----------------------------------------------------------------------------
(* Properties: the automatic trigger *)

\* C15: a sync() call of the automatic trigger (force = false) starts a pass
\* only when no other pass is executing, and at most one automatically
\* triggered pass is executing at any time.
C15_AutoTriggerExclusive ==
  [][/\ \A c \in Calls :
          (Enters(c, FALSE) /\ call'[c].result # "rejected")
            => \A d \in Calls \ {c} : ~Running(d)
     /\ Cardinality({c \in Calls : call'[c].pc \notin {"idle", "done"}
                                     /\ ~call'[c].force}) <= 1]_vars

----------------------------------------------------------------------------
(* Properties: the broadcast bus *)

\* the step is a notifyListeners() call that reaches at least one callback:
\* the set of callbacks is the same and some callback was called
DeliveryStep ==
  /\ Len(syncListeners') = Len(syncListeners)
  /\ syncListeners' # syncListeners

\* C16: a notifyListeners() call calls every subscribed callback once with
\* the one event, in registration order, whether or not an earlier callback
\* throws, and no exception leaves the call.
C16_DeliversToAll ==
  [][DeliveryStep =>
       /\ \E status \in {"syncing", "success", "error"} :
            \A k \in 1..Len(syncListeners) :
              syncListeners'[k] =
                [syncListeners[k] EXCEPT !.status = status, !.order = k,
                                         !.received = @ + 1,
                                         !.inProgress = syncInProgress]
       /\ ~notifyThrew']_vars

\* a callback that throws was called first and a callback registered after it
\* (with a smaller id: registration order is not id order) was called second
C16_Witness ==
  /\ Len(syncListeners) = 2
  /\ syncListeners[1].throws
  /\ syncListeners[1].id > syncListeners[2].id
  /\ syncListeners[1].order = 1
  /\ syncListeners[2].order = 2
  /\ syncListeners[2].status = "success"

----------------------------------------------------------------------------
(* Properties: conflict resolution *)

\* C17: in SpecConflict every pass starts after a record was renamed locally
\* and its remote row was renamed by another device later on, so the remote
\* change is the later one; after a pass that succeeds without per-record
\* failure, a local record that has a remote row holding the change of the
\* other device holds that change too, and so does every remote row uploaded
\* from it.
C17_LastWriteWins ==
  \A c \in Calls :
    CleanSuccess(c) =>
      \A id \in LocalIds("projects") :
        (/\ \E m \in meta : /\ m.table_name = "projects" /\ m.record_id = id
                            /\ m.last_modified < call[c].syncStartTime
         /\ \E r \in remote["projects"] :
              r["id"] \in RemoteIdsOf("projects", id) /\ r["name"] \in RemoteVals)
          => /\ \A r \in ById(local["projects"], id) : r["name"] \in RemoteVals
             /\ \A r \in remote["projects"] :
                  r["id"] \in RemoteIdsOf("projects", id) => r["name"] \in RemoteVals

----------------------------------------------------------------------------
(* Properties: release of the lock *)

\* C18: the step that ends a pass, from the try block or from the catch block
\* and whether or not it throws, leaves syncInProgress false; and whenever no
\* call is executing a pass, syncInProgress (what getSyncStatus() reports) is
\* false.
C18_LockReleased ==
  [][/\ \A c \in Calls : EndsPass(c) => ~syncInProgress'
     /\ (\A c \in Calls : call'[c].pc \in {"idle", "done"}) => ~syncInProgress']_vars

\* a pass failed its connectivity check and its error handler threw, another
\* pass returned success, no call is executing and the lock is free
C18_Witness ==
  /\ \E c \in Calls : call[c].pc = "done" /\ call[c].result = "thrown"
  /\ \E c \in Calls : call[c].pc = "done" /\ call[c].result = "success"
  /\ \A c \in Calls : ~Running(c)
  /\ ~syncInProgress

----------------------------------------------------------------------------
(* Properties: the events of a pass *)

\* the events are one or more "syncing" followed by one terminal event
SyncingThenTerminal(evs) ==
  /\ Len(evs) >= 2
  /\ \A k \in 1..(Len(evs) - 1) : evs[k] = "syncing"
  /\ evs[Len(evs)] \in {"success", "error"}

\* C19: the events broadcast for a started pass begin with "syncing" and hold
\* no event after a terminal one while the pass runs, and once the pass has
\* ended they are one or more "syncing" followed by exactly one terminal
\* event.
C19_SyncingThenTerminal ==
  \A c \in Calls :
    /\ Running(c) =>
         /\ Len(call[c].events) >= 1
         /\ \A k \in 1..Len(call[c].events) : call[c].events[k] = "syncing"
    /\ (call[c].pc = "done" /\ call[c].result # "rejected") =>
         SyncingThenTerminal(call[c].events)

----------------------------------------------------------------------------
(* Properties: update or insert in the upload phase *)

\* the step is an iteration of the upload loop of call c over a change whose
\* local record exists
UploadsExisting(c) ==
  /\ call[c].pc = "upload"
  /\ call'[c].i = call[c].i + 1
  /\ ById(local[CurrentChange(c).table_name], CurrentChange(c).record_id) # {}

\* the metadata row of the change has status synced and remote id sid after
\* the step
MarkedSyncedWith(ch, sid) ==
  \A m \in meta' :
    (m.table_name = ch.table_name /\ m.record_id = ch.record_id)
      => m.sync_status = "synced" /\ m.supabase_id = sid

\* C20: an iteration of the upload loop over a change whose local record
\* exists: with a non-null remote id it inserts no remote row and changes no
\* row but the one with that id, which on success holds the local fields and
\* whose id the metadata keeps; with a null remote id it changes no existing
\* remote row and on success adds one row that holds the local fields under
\* the id the remote sequence assigns (the local id is not sent), and the
\* metadata stores that id.
C20_UpdateOrInsert ==
  [][\A c \in Calls :
       UploadsExisting(c) =>
         LET ch == CurrentChange(c)
             t == ch.table_name
             rec == CHOOSE r \in ById(local[t], ch.record_id) : TRUE
             sent == [rec EXCEPT !["id"] = Absent]
         IN IF ch.supabase_id # Null
              THEN /\ remoteSeq' = remoteSeq
                   /\ IdsOf(remote'[t]) = IdsOf(remote[t])
                   /\ \A r \in remote'[t] : r["id"] # ch.supabase_id => r \in remote[t]
                   /\ Uploads(c) =>
                        /\ \E r \in remote'[t] :
                             /\ r["id"] = ch.supabase_id
                             /\ [LocalView(t, r) EXCEPT !["id"] = Absent] = sent
                        /\ MarkedSyncedWith(ch, ch.supabase_id)
              ELSE /\ remote[t] \subseteq remote'[t]
                   /\ Uploads(c) =>
                        /\ \E r \in remote'[t] \ remote[t] :
                             /\ remote'[t] = remote[t] \cup {r}
                             /\ r["id"] = remoteSeq[t] + 1
                             /\ [LocalView(t, r) EXCEPT !["id"] = Absent] = sent
                             /\ MarkedSyncedWith(ch, r["id"])
                   /\ ~Uploads(c) => remote'[t] = remote[t]]_vars

\* one upload loop has updated the remote row of a change that carried a
\* remote id with renamed local content and inserted a remote row, under an id
\* other than the local one, for a change that carried none
C20_Witness ==
  \E c \in Calls :
    /\ Len(call[c].changes) = 2
    /\ call[c].uploadedCount = 2
    /\ call[c].changes[1].supabase_id = 1
    /\ call[c].changes[2].supabase_id = Null
    /\ \E r \in remote["projects"] : r["id"] = 1 /\ r["name"] \in EditVals
    /\ \E r \in remote["projects"] : r["id"] = 2
    /\ \E m \in meta : m.record_id = 2 /\ m.sync_status = "synced" /\ m.supabase_id = 1
    /\ \E m \in meta : m.record_id = 3 /\ m.sync_status = "synced" /\ m.supabase_id = 2

----------------------------------------------------------------------------
(* Properties: the download phase *)

\* the step is the download phase of call c
Downloads(c) == call[c].pc = "download" /\ call'[c].pc # "download"

\* C21: after a download phase that processed every remote row without
\* error, every remote row of a table with an id has a metadata row (table,
\* row id) with status synced and remote id equal to the row's id, whether or
\* not such a metadata row existed before the pass.
C21_DownloadMarksSynced ==
  [][\A c \in Calls :
       (Downloads(c) /\ call'[c].downErrorCount = 0) =>
         \A t \in TableNames :
           \A r \in remote[t] :
             \E m \in meta' : /\ m.table_name = t
                              /\ m.record_id = r["id"]
                              /\ m.sync_status = "synced"
                              /\ m.supabase_id = r["id"]]_vars

\* the sum of f[x] over the elements x of S
RECURSIVE Sum(_, _)
Sum(f, S) ==
  IF S = {} THEN 0
  ELSE LET x == CHOOSE y \in S : TRUE IN f[x] + Sum(f, S \ {x})

\* the step has written the remote row rec of table t into the local table
Applied(t, rec) ==
  ById(local'[t], rec["id"]) =
    IF ById(local[t], rec["id"]) # {}
      THEN {Merged(t, r, rec) : r \in ById(local[t], rec["id"])}
      ELSE {Inserted(t, rec)}

\* C22: a download phase always returns to sync() without an error, whatever
\* failed in it.  For some set S of tables whose select failed, these tables
\* are left as they were and count one error each, every remote row of every
\* other table is counted as downloaded or as an error, and every row that is
\* not counted as an error has been written into the local table: no failure
\* of a record or of a table stops the processing of the others.
C22_DownloadNeverStops ==
  [][\A c \in Calls :
       Downloads(c) =>
         /\ call'[c].pc = "log"
         /\ call'[c].error = call[c].error
         /\ \E S \in SUBSET TableNames :
              LET rest == TableNames \ S
                  rows == [t \in TableNames |-> Cardinality(remote[t])]
                  lost == [t \in TableNames |->
                             Cardinality({rec \in remote[t] : ~Applied(t, rec)})]
              IN /\ \A t \in S : local'[t] = local[t]
                 /\ call'[c].downloadedCount + call'[c].downErrorCount =
                      Cardinality(S) + Sum(rows, rest)
                 /\ call'[c].downErrorCount >= Cardinality(S) + Sum(lost, rest)]_vars

\* a download phase has counted two errors and still downloaded the remote
\* task, the last row of the last table that has rows
C22_Witness ==
  \E c \in Calls :
    /\ call[c].pc = "log"
    /\ call[c].downErrorCount = 2
    /\ call[c].downloadedCount >= 1
    /\ \E r \in remote["tasks"] : LocalView("tasks", r) \in local["tasks"]

----------------------------------------------------------------------------
(* Properties: table order and the frame of the bulk export *)

\* C23: the tracked table order is fixed.  Whenever a clear loop is running
\* it iterates the tables in reverse dependency order, and whenever an export
\* loop is running or a pass is about to download, the tables are iterated in
\* forward dependency order, whatever exports and passes ran before.
C23_TableOrderFixed ==
  /\ ex.pc = "clear" => tables = Reverse(TABLES)
  /\ ex.pc = "export" => tables = TABLES
  /\ \A c \in Calls : call[c].pc = "download" => tables = TABLES

\* C24: the bulk export neither reads nor writes what the change tracker
\* keeps: every step of exportAllDataToSupabase(), for every combination of
\* its options, leaves the sync_metadata table, the sync_log table and every
\* local business row as they were.
C24_ExportLeavesLocalStore ==
  [][ex' # ex => /\ meta' = meta
                 /\ syncLog' = syncLog
                 /\ local' = local
                 /\ localSeq' = localSeq]_vars

\* an export that cleared the remote first has completed and exported
\* records, while sync_metadata still holds a pending row and sync_log an
\* entry
C24_Witness ==
  /\ ex.pc = "done"
  /\ ex.result = "success"
  /\ ex.clearSupabaseFirst
  /\ ex.totalExported >= 1
  /\ \E m \in meta : m.sync_status = "pending"
  /\ Len(syncLog) >= 1

\* C25: when an export has completed, the number of onProgress calls made
\* for each table whose local rows could be read equals the number of local
\* rows of the table: one call after every record, whether it was exported,
\* skipped as existing, or failed.
C25_ProgressPerRecord ==
  (ex.pc = "done" /\ ex.result = "success") =>
    \A t \in TableNames :
      ~ex.results[t].failed => ex.results[t].progress = Cardinality(local[t])

----------------------------------------------------------------------------
(* Properties: the pending query *)

\* the metadata rows that await an upload
Eligible == {x \in meta : x.sync_status \in {"pending", "error"}}

\* C26: the pending query returns metadata rows whose status is pending or
\* error and no other, each once, ordered by last_modified ascending, as many
\* as there are up to the batch size; no row with such a status that it omits
\* is older than a row it returns.
C26_PendingOldestFirst ==
  [][\A c \in Calls :
       (call[c].pc = "pending" /\ call'[c].pc \in {"upload", "download"}) =>
         LET changes == call'[c].changes
             returned == {changes[i] : i \in 1..Len(changes)}
         IN /\ returned \subseteq Eligible
            /\ Cardinality(returned) = Len(changes)
            /\ Len(changes) = IF Cardinality(Eligible) <= BATCH_SIZE
                                THEN Cardinality(Eligible) ELSE BATCH_SIZE
            /\ \A i, j \in 1..Len(changes) :
                 i < j => changes[i].last_modified <= changes[j].last_modified
            /\ \A x \in Eligible \ returned :
                 \A y \in returned : y.last_modified <= x.last_modified]_vars

\* the query has returned a full batch, leaving out a pending or error row
\* and an older synced row
C26_Witness ==
  \E c \in Calls :
    /\ call[c].pc = "upload"
    /\ Len(call[c].changes) = BATCH_SIZE
    /\ \E x \in Eligible : \A i \in 1..BATCH_SIZE : call[c].changes[i] # x
    /\ \E x \in meta : /\ x.sync_status = "synced"
                       /\ x.last_modified < call[c].changes[1].last_modified

----------------------------------------------------------------------------
(* Properties: the counts a pass reports *)

\* C27: a pass that returned success without per-record failure, whose only
\* fetched change is one record that has no remote id yet and that the upload
\* phase inserted remotely, reports uploadedCount = 1 and downloadedCount = 0:
\* the download phase does not count the record it has just uploaded.
C27_UploadedNotDownloaded ==
  \A c \in Calls :
    (/\ CleanSuccess(c)
     /\ Len(call[c].changes) = 1
     /\ call[c].changes[1].supabase_id = Null
     /\ call[c].changes[1].sync_status = "pending")
      => call[c].uploadedCount = 1 /\ call[c].downloadedCount = 0

----------------------------------------------------------------------------
(* Properties: the connectivity check *)

\* C29: checkConnection resolves to a boolean for every outcome and leaves
\* the online flag equal to it.  The connectivity check of a pass either
\* returns true, the pass going on with isOnline = TRUE, or returns false,
\* the pass failing with the no-connection error and isOnline = FALSE; it
\* never ends in any other way, the remote store being configured or not.
C29_CheckReturnsFlag ==
  [][\A c \in Calls :
       (call[c].pc = "check" /\ call'[c].pc # "check") =>
         \/ call'[c].pc = "pending" /\ isOnline'
         \/ /\ call'[c].pc = "catch"
            /\ call'[c].error = ErrNoConnection
            /\ ~isOnline']_vars

----------------------------------------------------------------------------
(* Properties: the life of the sync bookkeeping *)

\* the (table_name, record_id) keys of a sync_metadata table
MetaKeys(m) == {<<x.table_name, x.record_id>> : x \in m}

\* the step removes no metadata key and leaves every existing sync_log entry
\* in place
KeepsBookkeeping ==
  /\ MetaKeys(meta) \subseteq MetaKeys(meta')
  /\ Len(syncLog) <= Len(syncLog')
  /\ SubSeq(syncLog', 1, Len(syncLog)) = syncLog

\* C30 (as stated): every step of a repository mutation or of a pass only
\* adds metadata keys and only appends to sync_log; the only other steps are
\* those of the reset, which empties sync_metadata and sync_log together.
C30_ResetEmptiesBoth ==
  [][KeepsBookkeeping \/ (meta' = {} /\ syncLog' = <<>>)]_vars

\* C30 (amended): every step of a repository mutation or of a pass only adds
\* metadata keys and only appends to sync_log; the only other steps are those
\* of the reset, which empties sync_metadata and then either empties sync_log
\* too or, when its second statement fails, leaves sync_log as it was.
C30_ResetEmptiesMetadata ==
  [][\/ KeepsBookkeeping
     \/ meta' = {} /\ syncLog' = <<>>
     \/ meta' = {} /\ syncLog' = syncLog]_vars

\* after a repository mutation added a key, a reset has emptied
\* sync_metadata and sync_log
C30_Witness ==
  /\ nOps >= 1
  /\ meta = {}
  /\ syncLog = <<>>

----------------------------------------------------------------------------
(* Properties: withRetry *)

\* C28: withRetry runs the operation at most maxRetries times; every
\* iteration after the first starts with the store handle discarded and
\* reopens the store before it runs the operation; the call returns at the
\* first iteration whose operation succeeds, with the value of that
\* operation; and it throws only after maxRetries failed iterations, the
\* error being that of the last one.
C28_WithRetry ==
  [][retry' # retry =>
       LET trace == retry'.trace
           n == Len(trace)
       IN /\ retry'.runs <= maxRetries
          /\ n <= maxRetries
          /\ (retry.pc = "running" /\ retry.i > 0) =>
               /\ retry.db = "null"
               /\ retry'.runs > retry.runs => retry'.opens = retry.opens + 1
          /\ \A j \in 1..(n - 1) : trace[j] \notin OperationValues
          /\ retry'.pc = "returned" =>
               trace[n] \in OperationValues /\ retry'.result = trace[n]
          /\ retry'.pc = "running" =>
               n < maxRetries /\ (n > 0 => trace[n] \notin OperationValues)
          /\ retry'.pc = "thrown" =>
               /\ n = maxRetries
               /\ trace[n] \notin OperationValues
               /\ retry'.error = trace[n]]_vars

\* a call has thrown a constraint error after the operation ran maxRetries
\* times and first failed with another error
C28_Witness ==
  /\ retry.pc = "thrown"
  /\ retry.runs = maxRetries
  /\ retry.trace[1] = "transient"
  /\ retry.error = "constraint"

----------------------------------------------------------------------------
(* Properties: the shape of sync_metadata *)

\* C31: in every reachable state sync_metadata holds at most one row for
\* each (table_name, record_id) pair, and the status of every row is pending,
\* synced or error.
C31_OneRowPerKey ==
  /\ \A x, y \in meta :
       (x.table_name = y.table_name /\ x.record_id = y.record_id) => x = y
  /\ \A x \in meta : x.sync_status \in {"pending", "synced", "error"}

\* a record that already had a metadata row was marked again by a repository
\* mutation, and a pass has uploaded a change
C31_Witness ==
  /\ \E x \in meta : x.table_name = "projects" /\ x.record_id = 3 /\ x.last_modified > 2
  /\ \E c \in Calls : call[c].uploadedCount >= 1

----------------------------------------------------------------------------
(* Properties: what becomes of a record over several passes *)

\* C32: the remote store never holds two rows that uploads created from the
\* same local record.
C32_AtMostOneRemoteInsert ==
  \A x, y \in origin :
    (/\ x[1] = y[1] /\ x[2] = y[2]
     /\ x[3] \in IdsOf(remote[x[1]])
     /\ y[3] \in IdsOf(remote[y[1]]))
      => x[3] = y[3]

\* the records that are synced, with a remote row, in the initial store
SyncedAtStart == {<<"projects", 2>>}

\* C33: after a successful pass without per-record failure, every record
\* that was synced before, was then edited locally, and whose change the pass
\* fetched (the record not being touched again since) still holds the edited
\* values locally, and a remote row of the record holds the same values.
C33_EditSurvives ==
  \A c \in Calls :
    CleanSuccess(c) =>
      \A k \in 1..Len(call[c].changes) :
        LET ch == call[c].changes[k]
            t == ch.table_name
            id == ch.record_id
        IN (<<t, id>> \in SyncedAtStart /\ FetchedAndKept(ch) # {}) =>
             \A r \in ById(local[t], id) :
               /\ r["name"] \in EditVals
               /\ \E sid \in RemoteIdsOf(t, id) :
                    \E q \in ById(remote[t], sid) : q["name"] = r["name"]

\* C34: a record that was synced and has since been deleted locally stays
\* deleted: no step, and so no step of a sync pass, creates a local row with
\* its id again.
C34_DeletedStaysDeleted ==
  [][\A x \in SyncedAtStart :
       ById(local[x[1]], x[2]) = {} => ById(local'[x[1]], x[2]) = {}]_vars

\* C35: the download phase leaves every record that is pending or error as
\* it is: its metadata row is not marked synced and its local row is not
\* overwritten.
C35_DownloadSparesPending ==
  [][\A c \in Calls :
       Downloads(c) =>
         \A m \in meta :
           m.sync_status \in {"pending", "error"} =>
             /\ m \in meta'
             /\ ById(local'[m.table_name], m.record_id) =
                  ById(local[m.table_name], m.record_id)]_vars

----------------------------------------------------------------------------
(* Properties: fairness of the pending queue *)

\* the remote operation of the record of metadata row m would succeed: the
\* record exists locally and the remote schema accepts the row made from it
WouldSucceed(m) ==
  \E r \in ById(local[m.table_name], m.record_id) :
    ~RemoteRejects(remote, m.table_name,
                   RemoteNewRow(m.table_name, [r EXCEPT !["id"] = Absent], 0))

----------------------------------------------------------------------------
(* Properties: the status a subscriber holds after a pass *)

\* C37: the lock is released before the terminal event of a pass is
\* delivered.  A callback that reads getSyncStatus() on each broadcast and
\* whose last event is SUCCESS or ERROR holds inProgress = false once no pass
\* is running.
C37_StatusSettles ==
  (\A c \in Calls : ~Running(c)) =>
    \A k \in 1..Len(syncListeners) :
      syncListeners[k].status \in {"success", "error"}
        => ~syncListeners[k].inProgress

----------------------------------------------------------------------------
(* Properties: repository mutations under withRetry *)

\* C38: a repository mutation applies its primary write at most once per
\* call.  A createTask() call adds at most one row to tasks, and a
\* deleteTask() call for a task that existed when the call started does not
\* end by throwing 'Task not found'.
C38_PrimaryWriteOnce ==
  /\ Cardinality(local["tasks"])
       <= Cardinality(TasksAtStart)
            + Cardinality({c \in Callers : ops[c].kind = "createTask"})
  /\ \A c \in Callers :
       (ops[c].kind = "deleteTask" /\ ops[c].existed /\ ops[c].pc = "thrown")
         => ops[c].error # ErrNotFound

----------------------------------------------------------------------------
(* Properties: referential cleanup of deletions *)

\* C39: a deletion cleans up what refers to the deleted record.  After a
\* step that deletes project p no task of p remains; after a step that
\* removes a task, by deleteTask() or by the cascade of deleteProject(), no
\* task_tags row refers to it; after a step that deletes a tag no task_tags
\* row refers to it.
C39_NoOrphans ==
  [][/\ \A p \in LocalIds("projects") :
          ById(local'["projects"], p) = {}
            => \A r \in local'["tasks"] : r["project_id"] # p
     /\ \A t \in LocalIds("tasks") :
          ById(local'["tasks"], t) = {}
            => \A r \in local'["task_tags"] : r["task_id"] # t
     /\ \A g \in LocalIds("tags") :
          ById(local'["tags"], g) = {}
            => \A r \in local'["task_tags"] : r["tag_id"] # g]_vars

----------------------------------------------------------------------------
(* Properties: initialization of the local store *)

\* C40: store initialization is single-flight.  At most one _initDatabase()
\* run is in flight at a time, and while an operation runs with the handle
\* that db holds, no step of another caller or run takes that handle away
\* from db.
C40_SingleFlight ==
  [][/\ Cardinality({r \in Runs : inits'[r] = "running"}) <= 1
     /\ \A c \in Callers :
          (ops[c].pc = "op" /\ ops'[c].pc = "op" /\ db = ops[c].handle)
            => db' = db]_vars

====
